---- MODULE Spec2Model ----
(***************************************************************************)
(* Model of the Immigration Guardian RAG chatbot                           *)
(* (src/visa_guardian/app/rag_chatbot.py).                                 *)
(*                                                                         *)
(* Text is a TLA+ string; Len, \o and SubSeq act on strings as they do on  *)
(* sequences, so a character of s is SubSeq(s, i, i).                      *)
(***************************************************************************)
EXTENDS Integers, Sequences, FiniteSets, TLC

VARIABLES
    indexes,        \* self.indexes: the names of the loaded vector indexes
    metas,          \* self.metas: index name -> list of clause metadata
    hashseed,       \* the str hash salt of this run of the interpreter
    query,          \* the query text of the request being served
    pc,             \* position of the handler
    visa_type,      \* chat: visa_type
    question_type,  \* chat / search_relevant_docs: question_type
    caller_k,       \* search_relevant_docs: the k the caller passed
    k,              \* search_relevant_docs: the k handed to index.search
    hits,           \* search_relevant_docs: zip(indices[0], scores[0])
    relevant_docs,  \* chat: relevant_docs
    prompt,         \* generate_answer: the prompt posted to the generation service
    answer,         \* chat: answer
    response,       \* the dict chat returns
    calls,          \* how often the request has called each of its collaborators
    outcome,        \* what the request to the generation service came to
    context,        \* generate_answer / inject_knowledge_base: context
    ex_visa,        \* eval_retrieval.search: ex["visa_type"]
    pool,           \* eval_retrieval.search: candidates as retrieved
    candidates,     \* eval_retrieval.search: candidates
    reranked,       \* eval_retrieval.search: the ids it returns
    earlier,        \* the ids the call before this one returned
    requests,       \* concurrent calls of chat: each call's position, argument,
                    \* collaborator answer and return value
    frames          \* concurrent calls of chat: the local variables of each call

\* the state of the chatbot's request, of its collaborators and of the reranking
\* search
request_vars == << calls, outcome, context >>
rerank_vars == << ex_visa, pool, candidates, reranked, earlier >>
concurrent_vars == << requests, frames >>

vars == << indexes, metas, hashseed, query, pc, visa_type, question_type,
           caller_k, k, hits, relevant_docs, prompt, answer, response,
           calls, outcome, context, ex_visa, pool, candidates, reranked, earlier,
           requests, frames >>

(***************************************************************************)
(* Bounds of the model.                                                    *)
(***************************************************************************)
\* a generated query is the concatenation of at most MaxPieces pieces
MaxPieces == 2
\* the runs of the interpreter differ in one of NumSeeds hash salts
NumSeeds == 2
\* an index holds at most MaxDocs clauses
MaxDocs == 9
\* the best hit of a search is one of the first MaxOffset + 1 clauses
MaxOffset == 1
\* a faiss_meta.json of the reranking search lacks at most MaxDropped of the clauses
MaxDropped == 1
\* at most NumRequests calls of chat are in progress at a time
NumRequests == 2

(***************************************************************************)
(* Python's str operations.                                                *)
(***************************************************************************)
UpperChars == "ABCDEFGHIJKLMNOPQRSTUVWXYZ"
LowerChars == "abcdefghijklmnopqrstuvwxyz"
DigitChars == "0123456789"

\* kw in s
Contains(kw, s) ==
    \E i \in 1..(Len(s) - Len(kw) + 1) : SubSeq(s, i, i + Len(kw) - 1) = kw

\* s.startswith(p)
StartsWith(s, p) == Len(s) >= Len(p) /\ SubSeq(s, 1, Len(p)) = p

\* c.lower() for one character
LowerChar(c) ==
    IF Contains(c, UpperChars)
    THEN LET i == CHOOSE j \in 1..Len(UpperChars) : SubSeq(UpperChars, j, j) = c
         IN  SubSeq(LowerChars, i, i)
    ELSE c

\* s.lower()
RECURSIVE lower(_)
lower(s) ==
    IF s = "" THEN ""
    ELSE LowerChar(SubSeq(s, 1, 1)) \o lower(SubSeq(s, 2, Len(s)))

\* the regular expression class \w
IsWordChar(c) == Contains(c, UpperChars \o LowerChars \o DigitChars \o "_")

\* \b at the gap before position i of s (i = Len(s) + 1: the end of s)
WordBoundary(s, i) ==
    LET before == i > 1 /\ IsWordChar(SubSeq(s, i - 1, i - 1))
        after  == i <= Len(s) /\ IsWordChar(SubSeq(s, i, i))
    IN  before # after

\* re.search(r'\b' + phrase + r'\b', s) finds a match
re_search(phrase, s) ==
    \E i \in 1..(Len(s) - Len(phrase) + 1) :
        /\ SubSeq(s, i, i + Len(phrase) - 1) = phrase
        /\ WordBoundary(s, i)
        /\ WordBoundary(s, i + Len(phrase))

\* sep.join(parts)
RECURSIVE join(_, _)
join(sep, parts) ==
    IF parts = << >> THEN ""
    ELSE IF Len(parts) = 1 THEN parts[1]
    ELSE parts[1] \o sep \o join(sep, Tail(parts))

\* s.split(sep) for a separator of one character
RECURSIVE split(_, _)
split(s, sep) ==
    IF ~Contains(sep, s) THEN << s >>
    ELSE LET i == CHOOSE j \in 1..Len(s) :
                      /\ SubSeq(s, j, j) = sep
                      /\ \A h \in 1..(j - 1) : SubSeq(s, h, h) # sep
         IN  << SubSeq(s, 1, i - 1) >> \o split(SubSeq(s, i + 1, Len(s)), sep)

\* a variant of max that returns the last item whose key is the largest
RECURSIVE max_last(_)
max_last(items) ==
    IF Len(items) = 1 THEN items[1]
    ELSE LET best == max_last(SubSeq(items, 1, Len(items) - 1))
             last == items[Len(items)]
         IN  IF last.score >= best.score THEN last ELSE best

\* max(items, key=...): the first item whose key is the largest
RECURSIVE max_first(_)
max_first(items) ==
    IF Len(items) = 1 THEN items[1]
    ELSE LET best == max_first(SubSeq(items, 1, Len(items) - 1))
             last == items[Len(items)]
         IN  IF last.score > best.score THEN last ELSE best

(***************************************************************************)
(* classify_visa_type                                                      *)
(***************************************************************************)
\* the phrases p of the patterns r'\bp\b'
greeting_patterns ==
    << "hi", "hello", "hey", "good morning", "good afternoon", "good evening",
       "how are you", "what's up" >>

\* The dict literal repeats keys: a key keeps the place of its first
\* occurrence and the value of its last one.
typo_mapping ==
    << [typo |-> "f.1",  correct |-> "f1"],   [typo |-> "f1",  correct |-> "f1"],
       [typo |-> "f.2",  correct |-> "f2"],   [typo |-> "f2",  correct |-> "f2"],
       [typo |-> "hvb",  correct |-> "h-1b"], [typo |-> "h1b", correct |-> "h1b"],
       [typo |-> "h.1b", correct |-> "h1b"],
       [typo |-> "h.4",  correct |-> "h-4"],  [typo |-> "h4",  correct |-> "h4"],
       [typo |-> "j.1",  correct |-> "j-1"],  [typo |-> "j1",  correct |-> "j1"],
       [typo |-> "j.2",  correct |-> "j-2"],  [typo |-> "j2",  correct |-> "j2"] >>

visa_keywords ==
    << [visa |-> "F1",  keywords |-> << "f-1", "f1", "student", "study", "university",
                                        "college", "opt", "cpt", "on-campus",
                                        "off-campus", "practical training" >>],
       [visa |-> "F2",  keywords |-> << "f-2", "f2", "dependent", "spouse", "child", "family" >>],
       [visa |-> "H1B", keywords |-> << "h-1b", "h1b", "work", "employment", "specialty",
                                        "occupation" >>],
       [visa |-> "H4",  keywords |-> << "h-4", "h4", "dependent", "spouse", "child", "family" >>],
       [visa |-> "J1",  keywords |-> << "j-1", "j1", "exchange", "visitor", "research", "scholar" >>],
       [visa |-> "J2",  keywords |-> << "j-2", "j2", "dependent", "spouse", "child", "family" >>] >>

\* the keywords that are exact visa mentions
exact_visa_mentions ==
    { "f-1", "f1", "f-2", "f2", "h-1b", "h1b", "h-4", "h4", "j-1", "j1", "j-2", "j2" }

\* a variant that gives exact visa mentions no weight
KeywordWeight_keywords_only(keyword) == IF keyword \in exact_visa_mentions THEN 0 ELSE 1

\* the weight of a keyword found in the query
KeywordWeight(keyword) == IF keyword \in exact_visa_mentions THEN 3 ELSE 1

\* the loop "for keyword in keywords" over one category
RECURSIVE visa_score(_, _)
visa_score(keywords, query_lower) ==
    IF keywords = << >> THEN 0
    ELSE visa_score(SubSeq(keywords, 1, Len(keywords) - 1), query_lower)
         + (IF Contains(keywords[Len(keywords)], query_lower)
            THEN KeywordWeight(keywords[Len(keywords)]) ELSE 0)

\* scores.items()
visa_scores(query_lower) ==
    [c \in 1..Len(visa_keywords) |->
        [visa |-> visa_keywords[c].visa,
         score |-> visa_score(visa_keywords[c].keywords, query_lower)]]

\* a variant that looks for the correction instead of the typo
potential_typos_correct(query_lower) ==
    SelectSeq(typo_mapping, LAMBDA t : Contains(t.correct, query_lower))

\* the loop "for typo, correct in typo_mapping.items()"
potential_typos(query_lower) ==
    SelectSeq(typo_mapping, LAMBDA t : Contains(t.typo, query_lower))

\* a variant that tells the H family apart by digits alone
suggestion_for_digits(typo) ==
    IF Contains("f", lower(typo))
    THEN IF Contains("1", typo) THEN << "F-1 (student visa)" >>
         ELSE IF Contains("2", typo) THEN << "F-2 (dependent visa)" >>
         ELSE << "F-1 or F-2" >>
    ELSE IF Contains("h", lower(typo))
    THEN IF Contains("1", typo) THEN << "H-1B (work visa)" >>
         ELSE IF Contains("4", typo) THEN << "H-4 (dependent visa)" >>
         ELSE << "H-1B or H-4" >>
    ELSE IF Contains("j", lower(typo))
    THEN IF Contains("1", typo) THEN << "J-1 (exchange visitor)" >>
         ELSE IF Contains("2", typo) THEN << "J-2 (dependent visa)" >>
         ELSE << "J-1 or J-2" >>
    ELSE << >>

\* what one potential typo appends to suggestions
suggestion_for(typo) ==
    IF Contains("f", lower(typo))
    THEN IF Contains("1", typo) THEN << "F-1 (student visa)" >>
         ELSE IF Contains("2", typo) THEN << "F-2 (dependent visa)" >>
         ELSE << "F-1 or F-2" >>
    ELSE IF Contains("h", lower(typo))
    THEN IF Contains("1", typo) \/ Contains("b", typo) THEN << "H-1B (work visa)" >>
         ELSE IF Contains("4", typo) THEN << "H-4 (dependent visa)" >>
         ELSE << "H-1B or H-4" >>
    ELSE IF Contains("j", lower(typo))
    THEN IF Contains("1", typo) THEN << "J-1 (exchange visitor)" >>
         ELSE IF Contains("2", typo) THEN << "J-2 (dependent visa)" >>
         ELSE << "J-1 or J-2" >>
    ELSE << >>

\* the loop "for typo, correct in potential_typos"
RECURSIVE build_suggestions(_)
build_suggestions(typos) ==
    IF typos = << >> THEN << >>
    ELSE build_suggestions(SubSeq(typos, 1, Len(typos) - 1))
         \o suggestion_for(typos[Len(typos)].typo)

\* every string a suggestion can be
SuggestionTexts ==
    << "F-1 (student visa)", "F-2 (dependent visa)", "H-1B (work visa)",
       "H-4 (dependent visa)", "J-1 (exchange visitor)", "J-2 (dependent visa)",
       "F-1 or F-2", "H-1B or H-4", "J-1 or J-2" >>

\* The place of a str in the iteration of a set of str follows its hash, and
\* CPython salts the hash of str per process: the order differs from run to
\* run.  The salt selects one permutation of the strings.
HashSlot(x, seed) ==
    LET p == CHOOSE i \in 1..Len(SuggestionTexts) : SuggestionTexts[i] = x
    IN  (p * (((9 * seed) % 10) + 1)) % 11

\* list(set(items)) in a run salted with seed
RECURSIVE SortBySlot(_, _)
SortBySlot(S, seed) ==
    IF S = {} THEN << >>
    ELSE LET first == CHOOSE x \in S : \A y \in S : HashSlot(x, seed) <= HashSlot(y, seed)
         IN  << first >> \o SortBySlot(S \ {first}, seed)

\* a variant that keeps every item of the list
py_set_with_repeats(items, seed) == items

py_set(items, seed) == SortBySlot({ items[i] : i \in 1..Len(items) }, seed)

\* any(re.search(pattern, query_lower) for pattern in greeting_patterns)
is_greeting(query_lower) ==
    \E i \in 1..Len(greeting_patterns) : re_search(greeting_patterns[i], query_lower)

\* classify_visa_type past the greeting check
classify_by_keywords(query_lower, seed) ==
    LET typos       == potential_typos(query_lower)
        best_visa   == max_first(visa_scores(query_lower))
        suggestions == build_suggestions(typos)
    IN  IF typos # << >> /\ best_visa.score = 0 /\ suggestions # << >>
        THEN "typo_clarification:" \o join(",", py_set(suggestions, seed))
        ELSE IF best_visa.score > 0 THEN best_visa.visa ELSE "general"

\* a variant that looks for greetings only when no category scores
classify_visa_type_keywords_first(q, seed) ==
    LET query_lower == lower(q)
    IN  IF max_first(visa_scores(query_lower)).score = 0 /\ is_greeting(query_lower)
        THEN "general"
        ELSE classify_by_keywords(query_lower, seed)

classify_visa_type(q, seed) ==
    LET query_lower == lower(q)
    IN  IF is_greeting(query_lower)
        THEN "general"
        ELSE classify_by_keywords(query_lower, seed)

(***************************************************************************)
(* classify_question_type                                                  *)
(***************************************************************************)
technical_keywords ==
    << "exact", "specific", "precise", "limit", "requirement", "deadline", "timeline",
       "calculation", "formula", "percentage", "days", "hours", "weeks", "months",
       "unemployment", "cap", "quota", "prevailing wage", "lca", "i-765", "i-129",
       "sevis", "ds-2019", "i-20", "ead", "grace period", "extension" >>

procedural_keywords ==
    << "how to", "step by step", "process", "procedure", "apply", "file", "submit",
       "application", "form", "document", "requirement", "checklist", "timeline",
       "deadline", "when to", "where to", "what forms", "which form" >>

emergency_keywords ==
    << "emergency", "urgent", "immediately", "right now", "today", "tomorrow",
       "expired", "expiring", "terminated", "laid off", "fired", "lost job",
       "out of status", "violation", "deportation", "removal", "overstay" >>

comparison_keywords ==
    << "difference between", "vs", "versus", "compare", "similar", "different",
       "better", "worse", "advantage", "disadvantage", "pros", "cons" >>

\* a variant that counts a keyword only where it stands as a whole word
RECURSIVE count_whole_words(_, _)
count_whole_words(keywords, query_lower) ==
    IF keywords = << >> THEN 0
    ELSE count_whole_words(SubSeq(keywords, 1, Len(keywords) - 1), query_lower)
         + (IF re_search(keywords[Len(keywords)], query_lower) THEN 1 ELSE 0)

\* sum(1 for keyword in keywords if keyword in query_lower)
RECURSIVE count_matches(_, _)
count_matches(keywords, query_lower) ==
    IF keywords = << >> THEN 0
    ELSE count_matches(SubSeq(keywords, 1, Len(keywords) - 1), query_lower)
         + (IF Contains(keywords[Len(keywords)], query_lower) THEN 1 ELSE 0)

\* scores.items()
question_scores(query_lower) ==
    << [type |-> "technical",  score |-> count_matches(technical_keywords, query_lower)],
       [type |-> "procedural", score |-> count_matches(procedural_keywords, query_lower)],
       [type |-> "emergency",  score |-> count_matches(emergency_keywords, query_lower)],
       [type |-> "comparison", score |-> count_matches(comparison_keywords, query_lower)] >>

classify_question_type(q) ==
    LET best_type == max_first(question_scores(lower(q)))
    IN  IF best_type.score > 0 THEN best_type.type ELSE "general"

(***************************************************************************)
(* The query texts.                                                        *)
(***************************************************************************)
\* the texts of the end-to-end scenarios, and their neighbours
ScenarioQueries ==
    { "Can F-1 students work more than 20 hours during school?",
      "hello",
      "hvb work visa",
      "hvb visa",
      "Hi, tell me about F-1",
      "difference between F-1 OPT and CPT",
      "h1b cap 65000",
      "How do I apply?",
      "how to apply for h1b",
      "My F-1 expired, urgent",
      "hvb h.1b f.2",
      "j.1 or j.2" }

\* the pieces generated queries are made of
Pieces ==
    { "Hi", "s", " f-1", "f.1", "hvb", " h.4", "H4", " spouse", "student", " work",
      " deadline", "apply", "urgent", " vs", " j-2" }

GeneratedQueries ==
    { join("", ps) : ps \in UNION { [1..n -> Pieces] : n \in 0..MaxPieces } }

Queries == GeneratedQueries \cup ScenarioQueries

Seeds == 0..(NumSeeds - 1)

(***************************************************************************)
(* The classifiers applied to a query: SpecClassify.                       *)
(***************************************************************************)
NoDocs == << >>
NoPrompt == [template |-> "", context |-> "", query |-> ""]
NoResponse == [query |-> "", visa_type |-> "", question_type |-> "", answer |-> "",
               sources |-> << >>, num_sources |-> 0]

\* no call made yet: of self.classify_question_type, of self.search_relevant_docs,
\* of self.embedding_model.encode and of requests.post
NoCalls == [classify_question |-> 0, search |-> 0, encode |-> 0, generate |-> 0]

\* one more call of each of the collaborators in whom
called(whom) == [c \in DOMAIN calls |-> IF c \in whom THEN calls[c] + 1 ELSE calls[c]]

\* the reranking search is not running
NoRerank ==
    /\ ex_visa = ""
    /\ pool = << >>
    /\ candidates = << >>
    /\ reranked = << >>
    /\ earlier = << >>

\* no concurrent calls
NoRequests ==
    /\ requests = << >>
    /\ frames = << >>

InitClassify ==
    /\ indexes = {}
    /\ metas = << >>
    /\ hashseed \in Seeds
    /\ query \in Queries
    /\ pc = "classify_visa"
    /\ visa_type = ""
    /\ question_type = ""
    /\ caller_k = 0
    /\ k = 0
    /\ hits = << >>
    /\ relevant_docs = NoDocs
    /\ prompt = NoPrompt
    /\ answer = ""
    /\ response = NoResponse
    /\ calls = NoCalls
    /\ outcome = ""
    /\ context = ""
    /\ NoRerank
    /\ NoRequests

ClassifyVisaType ==
    /\ pc = "classify_visa"
    /\ visa_type' = classify_visa_type(query, hashseed)
    /\ pc' = "classify_question"
    /\ UNCHANGED << indexes, metas, hashseed, query, question_type, caller_k, k, hits,
                    relevant_docs, prompt, answer, response >>
    /\ UNCHANGED << request_vars, rerank_vars, concurrent_vars >>

ClassifyQuestionType ==
    /\ pc = "classify_question"
    /\ question_type' = classify_question_type(query)
    /\ pc' = "classified"
    /\ calls' = called({ "classify_question" })
    /\ UNCHANGED << indexes, metas, hashseed, query, visa_type, caller_k, k, hits,
                    relevant_docs, prompt, answer, response >>
    /\ UNCHANGED << outcome, context, rerank_vars, concurrent_vars >>

NextClassify == ClassifyVisaType \/ ClassifyQuestionType

SpecClassify == InitClassify /\ [][NextClassify]_vars

(***************************************************************************)
(* The document store and the vector index.                                *)
(***************************************************************************)
visa_types == << "F1", "F2", "H1B", "H4", "J1", "J2" >>

IndexNames == { visa_types[i] : i \in 1..Len(visa_types) } \cup { "general" }

\* n copies of s in a row
RECURSIVE Repeat(_, _)
Repeat(s, n) == IF n = 0 THEN "" ELSE s \o Repeat(s, n - 1)

\* the text of the long clauses: 806 characters that end with a mark at
\* characters 796 to 800 and another at 801 to 805
LongText == Repeat("and so on ", 79) \o "with <800>" \o "<801>."

\* one entry of a faiss_*_meta.json; the second clause of a list is a long one
Clause(name, i) ==
    [title        |-> name \o " clause " \o ToString(i),
     url          |-> "https://law.example/" \o name \o "/" \o ToString(i),
     section_hint |-> IF i % 2 = 0 THEN "" ELSE "Sec. " \o ToString(i),
     text         |-> IF i = 2 THEN LongText
                      ELSE "text of " \o name \o " clause " \o ToString(i),
     visa_tags    |-> << name >>]

\* a faiss_*_meta.json of n entries
Corpus(name, n) == [i \in 1..n |-> Clause(name, i)]

\* Similarities are counted in units of 0.0000001: the 0.1 of the filter.
SimilarityThreshold == 1000000

\* the similarities a search reports, largest first: 0.5, 0.1000001 and 0.1
ScoreLevels == << 5000000, 1000001, 1000000 >>

\* the row of index.search at a rank the index has no clause for: position -1 and
\* the lowest similarity there is
NoHit == [i |-> -1, score |-> -(2 ^ 30)]

Min(a, b) == IF a <= b THEN a ELSE b

Range(seq) == { seq[i] : i \in 1..Len(seq) }

\* the non-increasing lists of m similarities
ScoreProfiles(m) ==
    LET cuts == { c \in [1..(Len(ScoreLevels) - 1) -> 0..m] :
                    \A j \in 1..(Len(ScoreLevels) - 2) : c[j] <= c[j + 1] }
    IN  { [r \in 1..m |-> ScoreLevels[1 + Cardinality({ j \in DOMAIN c : c[j] < r })]] :
            c \in cuts }

\* index.search(query_vector, depth) on an inner-product index of n clauses: the
\* results zip(indices[0], scores[0]) it can give.  depth rows, the clauses found
\* first, by descending similarity, then rows without clause; which clauses are
\* the nearest depends on the query vector.
index_search(n, depth) ==
    LET m == Min(n, depth)
    IN  { [r \in 1..depth |->
              IF r <= m THEN [i |-> (first + r - 1) % n, score |-> profile[r]]
              ELSE NoHit] :
            first \in 0..Min(n - 1, MaxOffset), profile \in ScoreProfiles(m) }
        \cup (IF n = 0 THEN { [r \in 1..depth |-> NoHit] } ELSE {})

(***************************************************************************)
(* search_relevant_docs                                                    *)
(***************************************************************************)
\* a variant that leaves technical questions out of the deep searches
retrieval_depth_not_technical(qtype, given_k) ==
    IF qtype \in { "procedural", "emergency" } THEN 8 ELSE 5

\* a variant that keeps the caller's k for the other question types
retrieval_depth_caller(qtype, given_k) ==
    IF qtype \in { "technical", "procedural", "emergency" } THEN 8 ELSE given_k

\* the k handed to index.search
retrieval_depth(qtype, given_k) ==
    IF qtype \in { "technical", "procedural", "emergency" } THEN 8 ELSE 5

\* a variant that keeps a hit at the threshold
keep_hit_at_threshold(hit) == hit.i >= 0 /\ hit.score >= SimilarityThreshold

\* the filter on one row of the result
keep_hit(hit) == hit.i >= 0 /\ hit.score > SimilarityThreshold

\* a variant that writes the score into the stored entry of every row it keeps
stored_after_scoring_in_place(meta, rows) ==
    [n \in 1..Len(meta) |->
        IF \E r \in 1..Len(rows) : rows[r].i = n - 1 /\ rows[r].score > SimilarityThreshold
        THEN [f \in DOMAIN meta[n] \cup { "score" } |->
                 IF f = "score"
                 THEN rows[CHOOSE r \in 1..Len(rows) : rows[r].i = n - 1].score
                 ELSE meta[n][f]]
        ELSE meta[n]]

\* self.metas[visa_type] after the loop: the score goes into the copy, the stored
\* entries stay as they are
stored_after_scoring(meta, rows) == meta

\* doc = meta_entry.copy(); doc['score'] = float(score)
scored_copy(meta_entry, score) ==
    [f \in DOMAIN meta_entry \cup { "score" } |->
        IF f = "score" THEN score ELSE meta_entry[f]]

\* the loop "for i, score in zip(indices[0], scores[0])"
RECURSIVE collect_docs(_, _)
collect_docs(rows, meta) ==
    IF rows = << >> THEN << >>
    ELSE LET docs == collect_docs(SubSeq(rows, 1, Len(rows) - 1), meta)
             hit  == rows[Len(rows)]
         IN  IF keep_hit(hit) THEN Append(docs, scored_copy(meta[hit.i + 1], hit.score))
             ELSE docs

\* search_relevant_docs(query, visa_type, k) called with k = given_k; next is the
\* position it returns to.  question_type is its local of that name.
search_relevant_docs(given_k, next) ==
    /\ caller_k' = given_k
    /\ IF visa_type \notin indexes
       THEN /\ relevant_docs' = << >>
            /\ k' = given_k
            /\ hits' = << >>
            /\ calls' = called({ "search" })
            /\ UNCHANGED << question_type, metas >>
       ELSE /\ calls' = called({ "search", "encode", "classify_question" })
            /\ question_type' = classify_question_type(query)
            /\ k' = retrieval_depth(question_type', given_k)
            /\ hits' \in index_search(Len(metas[visa_type]), k')
            /\ relevant_docs' = collect_docs(hits', metas[visa_type])
            /\ metas' = [metas EXCEPT ![visa_type] = stored_after_scoring(@, hits')]
    /\ pc' = next
    /\ UNCHANGED << indexes, hashseed, query, visa_type, prompt, answer, response >>
    /\ UNCHANGED << outcome, context, rerank_vars, concurrent_vars >>

\* the texts, the arguments and the index sizes search_relevant_docs is applied to
SearchQueries ==
    { "hello", "h1b cap 65000", "apply", "urgent", "difference between F-1 OPT and CPT" }
SearchVisas == { "F1", "general" }
CallerKs == { 1, 5, 10 }

InitSearch ==
    /\ indexes \in { {}, { "F1" }, IndexNames }
    /\ \E n \in 0..MaxDocs : metas = [name \in indexes |-> Corpus(name, n)]
    /\ hashseed = 0
    /\ query \in SearchQueries
    /\ pc = "search"
    /\ visa_type \in SearchVisas
    /\ question_type = ""
    /\ caller_k \in CallerKs
    /\ k = caller_k
    /\ hits = << >>
    /\ relevant_docs = NoDocs
    /\ prompt = NoPrompt
    /\ answer = ""
    /\ response = NoResponse
    /\ calls = NoCalls
    /\ outcome = ""
    /\ context = ""
    /\ NoRerank
    /\ NoRequests

SearchRelevantDocs ==
    /\ pc = "search"
    /\ search_relevant_docs(caller_k, "searched")

NextSearch == SearchRelevantDocs

SpecSearch == InitSearch /\ [][NextSearch]_vars

(***************************************************************************)
(* generate_answer and chat: Spec.                                         *)
(***************************************************************************)
WelcomeMessage ==
    "Hello! I'm your Immigration Guardian. I can help you with questions about F-1, F-2, H-1B, H-4, J-1, and J-2 visa laws and regulations. What would you like to know?"

NoInfoMessage ==
    "I don't have enough information to answer that question accurately. Please try rephrasing or ask about a different immigration topic."

\* a variant that answers every empty retrieval alike
fallback_answer_no_info(visa) == NoInfoMessage

\* a variant that welcomes after every empty retrieval
fallback_answer_welcome(visa) == WelcomeMessage

\* generate_answer when relevant_docs is empty
fallback_answer(visa) == IF visa = "general" THEN WelcomeMessage ELSE NoInfoMessage

\* seq[:n]
Take(seq, n) == SubSeq(seq, 1, Min(n, Len(seq)))

\* self.knowledge_base: entry -> its items as (key, value), in the order of the
\* dict literal; the section sign of a citation is written Sec.
knowledge_base ==
    [f1_opt_unemployment |->
        << << "standard_opt", "90 days total during the 12-month OPT period" >>,
           << "stem_opt", "150 days total (90 days from initial OPT + 60 days during STEM extension)" >>,
           << "source", "USCIS Policy Manual, Volume 2, Part F, Chapter 5" >> >>,
     f1_cpt_limits |->
        << << "full_time_cpt", "12 months or more of full-time CPT eliminates OPT eligibility at the same educational level" >>,
           << "part_time_cpt", "Part-time CPT does not reduce OPT eligibility" >>,
           << "source", "8 CFR Sec. 214.2(f)(10)(i)" >> >>,
     h1b_cap |->
        << << "regular_cap", "65,000 visas per fiscal year" >>,
           << "masters_cap", "20,000 additional visas for advanced degree holders" >>,
           << "exemptions", "H-1B workers at institutions of higher education, nonprofit research organizations, and government research organizations are cap-exempt" >>,
           << "source", "INA Sec. 214(g)" >> >>,
     h4_ead_eligibility |->
        << << "requirements", "H-4 spouse must have H-1B spouse with approved I-140 or H-1B status extended beyond 6 years under AC21" >>,
           << "form", "Form I-765" >>,
           << "processing_time", "3-6 months" >>,
           << "source", "8 CFR Sec. 274a.12(c)(26)" >> >>,
     j1_waiver_categories |->
        << << "no_objection", "Home country government provides no-objection statement" >>,
           << "interested_government", "U.S. federal agency requests waiver" >>,
           << "persecution", "Fear of persecution based on race, religion, or political opinion" >>,
           << "exceptional_hardship", "Exceptional hardship to U.S. citizen or permanent resident spouse/child" >>,
           << "conrad_30", "Physicians working in underserved areas" >>,
           << "source", "INA Sec. 212(e)" >> >>]

\* kb_info.get(key, 'N/A')
kb_get(kb_info, key) ==
    IF \E n \in 1..Len(kb_info) : kb_info[n][1] = key
    THEN kb_info[CHOOSE n \in 1..Len(kb_info) : kb_info[n][1] = key][2]
    ELSE "N/A"

\* c.upper() for one character
UpperChar(c) ==
    IF Contains(c, LowerChars)
    THEN LET i == CHOOSE j \in 1..Len(LowerChars) : SubSeq(LowerChars, j, j) = c
         IN  SubSeq(UpperChars, i, i)
    ELSE c

IsLetter(c) == Contains(c, UpperChars \o LowerChars)

\* s.replace(a, b) for single characters a and b
RECURSIVE replace(_, _, _)
replace(s, a, b) ==
    IF s = "" THEN ""
    ELSE (IF SubSeq(s, 1, 1) = a THEN b ELSE SubSeq(s, 1, 1))
         \o replace(SubSeq(s, 2, Len(s)), a, b)

\* s.title(): a letter is in upper case after a character that is no letter and
\* in lower case after a letter
RECURSIVE title_from(_, _)
title_from(s, i) ==
    IF i > Len(s) THEN ""
    ELSE LET c == SubSeq(s, i, i)
             after_letter == i > 1 /\ IsLetter(SubSeq(s, i - 1, i - 1))
         IN  (IF after_letter THEN LowerChar(c) ELSE UpperChar(c)) \o title_from(s, i + 1)

title(s) == title_from(s, 1)

\* the rules of inject_knowledge_base, in the order it checks them: the visa
\* types and the terms of a rule, the entry it reads, the heading it writes and
\* the (label, key) of its lines; the rule of J1 and J2 writes a line for every
\* item of its entry but source
knowledge_rules ==
    << [visas |-> {"F1"}, terms |-> {"unemployment", "limit", "days", "opt"},
        entry |-> "f1_opt_unemployment",
        heading |-> "OPT Unemployment Limits (Knowledge Base):",
        lines |-> << << "Standard OPT", "standard_opt" >>, << "STEM OPT", "stem_opt" >> >>],
       [visas |-> {"F1"}, terms |-> {"cpt", "curricular", "practical training"},
        entry |-> "f1_cpt_limits",
        heading |-> "CPT Limits (Knowledge Base):",
        lines |-> << << "Full-time CPT", "full_time_cpt" >>,
                     << "Part-time CPT", "part_time_cpt" >> >>],
       [visas |-> {"H1B"}, terms |-> {"cap", "quota", "limit", "65,000", "20,000"},
        entry |-> "h1b_cap",
        heading |-> "H-1B Cap Information (Knowledge Base):",
        lines |-> << << "Regular Cap", "regular_cap" >>, << "Masters Cap", "masters_cap" >>,
                     << "Exemptions", "exemptions" >> >>],
       [visas |-> {"H4"}, terms |-> {"work", "employment", "ead", "i-765"},
        entry |-> "h4_ead_eligibility",
        heading |-> "H-4 EAD Eligibility (Knowledge Base):",
        lines |-> << << "Requirements", "requirements" >>, << "Form", "form" >>,
                     << "Processing Time", "processing_time" >> >>],
       [visas |-> {"J1", "J2"}, terms |-> {"waiver", "2-year", "home residency", "212(e)"},
        entry |-> "j1_waiver_categories",
        heading |-> "J-1 Waiver Categories (Knowledge Base):",
        lines |->
            LET kb_info == knowledge_base["j1_waiver_categories"]
                items == SelectSeq(kb_info, LAMBDA item : item[1] # "source")
            IN  [n \in 1..Len(items) |->
                    << title(replace(items[n][1], "_", " ")), items[n][1] >>]] >>

\* the lines a rule appends to additional_info; the bullet of a line is written *
fact_block(rule) ==
    LET kb_info == knowledge_base[rule.entry]
    IN  << rule.heading >>
        \o [n \in 1..Len(rule.lines) |->
               "* " \o rule.lines[n][1] \o ": " \o kb_get(kb_info, rule.lines[n][2])]
        \o << "Source: " \o kb_get(kb_info, "source") >>

\* the rules of visa with a term in the lowercased query
fired_rules(q, visa) ==
    LET query_lower == lower(q)
    IN  SelectSeq(knowledge_rules,
                  LAMBDA rule : /\ visa \in rule.visas
                                /\ \E term \in rule.terms : Contains(term, query_lower))

RECURSIVE concat(_)
concat(lists) == IF lists = << >> THEN << >> ELSE lists[1] \o concat(Tail(lists))

\* a variant that leaves the citation line out of the facts
additional_info_uncited(q, visa) ==
    LET fired == fired_rules(q, visa)
    IN  concat([n \in 1..Len(fired) |->
                   SubSeq(fact_block(fired[n]), 1, Len(fact_block(fired[n])) - 1)])

\* additional_info at the end of inject_knowledge_base
additional_info(q, visa) ==
    LET fired == fired_rules(q, visa)
    IN  concat([n \in 1..Len(fired) |-> fact_block(fired[n])])

\* inject_knowledge_base(query, context, visa_type)
inject_knowledge_base(q, given_context, visa) ==
    LET info == additional_info(q, visa)
    IN  IF info # << >> THEN given_context \o "\n\n" \o join("\n", info)
        ELSE given_context

\* the lines generate_answer writes for document number n of the context
context_part(doc, n) ==
    << "Source " \o ToString(n) \o ": " \o doc.title >>
    \o (IF doc.section_hint # "" THEN << "Section: " \o doc.section_hint >> ELSE << >>)
    \o << "Content: " \o Take(doc.text, 800) >>
    \o (IF doc.url # "" THEN << "URL: " \o doc.url >> ELSE << >>)
    \o << "---" >>

\* a variant that writes every retrieved document into the context
build_context_uncut(docs) ==
    join("\n", concat([n \in 1..Len(docs) |-> context_part(docs[n], n)]))

\* context = "\n".join(context_parts) over relevant_docs[:5]
build_context(docs) ==
    LET used == Take(docs, 5)
    IN  join("\n", concat([n \in 1..Len(used) |-> context_part(used[n], n)]))

\* a variant that reads the knowledge base for every question type
build_context_injected_always(q, docs, visa, qtype) ==
    inject_knowledge_base(q, build_context(docs), visa)

\* context when the prompt is composed: the knowledge base is read for the
\* technical questions
build_context_injected(q, docs, visa, qtype) ==
    IF qtype = "technical"
    THEN inject_knowledge_base(q, build_context(docs), visa)
    ELSE build_context(docs)

\* a variant that looks at the question type first
prompt_template_by_question(visa, qtype) ==
    IF qtype \in { "technical", "procedural", "emergency", "comparison" } THEN qtype
    ELSE IF visa = "general" THEN "general"
    ELSE "default"

\* the chain "if visa_type == "general" ... elif question_type == ... else"
prompt_template(visa, qtype) ==
    IF visa = "general" THEN "general"
    ELSE IF qtype \in { "technical", "procedural", "emergency", "comparison" } THEN qtype
    ELSE "default"

\* generate_answer up to the request: the prompt it posts, as the template it
\* fills and what it fills in for {context} and {query}; the general template has
\* no {context}
build_prompt(q, composed_context, visa, qtype) ==
    LET template == prompt_template(visa, qtype)
    IN  [template |-> template,
         context  |-> IF template = "general" THEN "" ELSE composed_context,
         query    |-> q]

\* what the request to the generation service can come to: status 200 with a
\* JSON object that has or lacks the key response, status 200 with a body that is
\* not JSON, another status, or requests.post raising a RequestException
\* (connection error, timeout)
GenerationOutcomes ==
    { "ok", "ok_without_response", "ok_not_json", "bad_status", "request_exception" }

\* the failures of the generation call
GenerationFailures == { "bad_status", "request_exception" }

\* the value generate_answer returns after the request
generated_answer(o) ==
    CASE o = "ok" -> "<text of the model>"
      [] o = "ok_without_response" ->
            "Sorry, I encountered an error generating the response."
      [] o = "bad_status" -> "Error: 500 - <body>"
      [] o \in { "request_exception", "ok_not_json" } ->
            "Error connecting to Ollama: <exception>"

\* a variant that lets a failure of the call escape generate_answer
after_generation_raise(o) == IF o \in GenerationFailures THEN "raised" ELSE "chat_return"

\* a variant that posts the request again after a failure
after_generation_retry(o) ==
    IF o \in GenerationFailures THEN "chat_generate" ELSE "chat_return"

\* where chat goes on once the request is answered: every branch of
\* generate_answer returns to chat
after_generation(o) == "chat_return"

\* the source chat reports for one document
source_of(doc) ==
    [title |-> doc.title, url |-> doc.url, section_hint |-> doc.section_hint,
     score |-> doc.score, visa_tags |-> doc.visa_tags]

\* the message of the typo clarification branch of chat; the bullet of a line is
\* written *
RECURSIVE suggestion_lines(_)
suggestion_lines(suggestions) ==
    IF suggestions = << >> THEN ""
    ELSE "* " \o suggestions[1] \o "\n" \o suggestion_lines(Tail(suggestions))

clarification_msg(visa) ==
    "I noticed you might have a typo in your question. Did you mean one of these visa types?\n\n"
    \o suggestion_lines(split(split(visa, ":")[2], ","))
    \o "\nPlease clarify which visa type you're asking about, and I'll be happy to help!"

\* the sizes of the clause lists on disk
CorpusSize(name) ==
    IF name = "F1" THEN MaxDocs - 3 ELSE IF name = "general" THEN 2 ELSE 1

\* the sets of indexes whose files exist: F1, H1B and general each there or not,
\* the other four there
OtherVisas == { "F2", "H4", "J1", "J2" }
IndexFiles == { present \in SUBSET IndexNames : OtherVisas \subseteq present }

\* __init__: the indexes whose two files exist are loaded
Init ==
    /\ indexes \in IndexFiles
    /\ metas = [name \in indexes |-> Corpus(name, CorpusSize(name))]
    /\ hashseed \in Seeds
    /\ query = ""
    /\ pc = "idle"
    /\ visa_type = ""
    /\ question_type = ""
    /\ caller_k = 0
    /\ k = 0
    /\ hits = << >>
    /\ relevant_docs = NoDocs
    /\ prompt = NoPrompt
    /\ answer = ""
    /\ response = NoResponse
    /\ calls = NoCalls
    /\ outcome = ""
    /\ context = ""
    /\ NoRerank
    /\ NoRequests

\* chat(query) is called
ChatCall ==
    /\ pc \in { "idle", "returned", "raised" }
    /\ query' \in ScenarioQueries
    /\ pc' = "chat_classify_visa"
    /\ visa_type' = ""
    /\ question_type' = ""
    /\ caller_k' = 0
    /\ k' = 0
    /\ hits' = << >>
    /\ relevant_docs' = NoDocs
    /\ prompt' = NoPrompt
    /\ answer' = ""
    /\ response' = NoResponse
    /\ calls' = NoCalls
    /\ outcome' = ""
    /\ context' = ""
    /\ UNCHANGED << indexes, metas, hashseed >>
    /\ UNCHANGED << rerank_vars, concurrent_vars >>

\* visa_type = self.classify_visa_type(query), and the typo clarification branch
ChatClassifyVisa ==
    /\ pc = "chat_classify_visa"
    /\ visa_type' = classify_visa_type(query, hashseed)
    /\ IF StartsWith(visa_type', "typo_clarification:")
       THEN /\ response' = [query |-> query, visa_type |-> "typo_clarification",
                            question_type |-> "clarification",
                            answer |-> clarification_msg(visa_type'),
                            sources |-> << >>, num_sources |-> 0]
            /\ pc' = "returned"
       ELSE /\ pc' = "chat_classify_question"
            /\ UNCHANGED response
    /\ UNCHANGED << indexes, metas, hashseed, query, question_type, caller_k, k, hits,
                    relevant_docs, prompt, answer >>
    /\ UNCHANGED << request_vars, rerank_vars, concurrent_vars >>

\* question_type = self.classify_question_type(query)
ChatClassifyQuestion ==
    /\ pc = "chat_classify_question"
    /\ question_type' = classify_question_type(query)
    /\ pc' = "chat_search"
    /\ calls' = called({ "classify_question" })
    /\ UNCHANGED << indexes, metas, hashseed, query, visa_type, caller_k, k, hits,
                    relevant_docs, prompt, answer, response >>
    /\ UNCHANGED << outcome, context, rerank_vars, concurrent_vars >>

\* relevant_docs = self.search_relevant_docs(query, visa_type)
ChatSearch ==
    /\ pc = "chat_search"
    /\ search_relevant_docs(5, "chat_generate")

\* answer = self.generate_answer(query, relevant_docs, visa_type); the search
\* result, a local of search_relevant_docs, is gone by now
ChatGenerate ==
    /\ pc = "chat_generate"
    /\ IF relevant_docs = << >>
       THEN /\ answer' = fallback_answer(visa_type)
            /\ pc' = "chat_return"
            /\ UNCHANGED << prompt, calls, outcome, context >>
       ELSE /\ LET qtype == classify_question_type(query)
               IN  context' = build_context_injected(query, relevant_docs, visa_type, qtype)
            /\ prompt' = build_prompt(query, context', visa_type,
                                      classify_question_type(query))
            /\ calls' = called({ "classify_question", "generate" })
            /\ \E o \in GenerationOutcomes, caught \in BOOLEAN :
                  /\ outcome' = o
                  \* response.json() of a body that is not JSON raises an error
                  \* that is a RequestException in some versions of requests and
                  \* a plain ValueError in others
                  /\ IF o = "ok_not_json" /\ ~caught
                     THEN /\ pc' = "raised"
                          /\ UNCHANGED answer
                     ELSE /\ pc' = after_generation(o)
                          /\ answer' = generated_answer(o)
    /\ hits' = << >>
    /\ UNCHANGED << indexes, metas, hashseed, query, visa_type, question_type, caller_k, k,
                    relevant_docs, response >>
    /\ UNCHANGED << rerank_vars, concurrent_vars >>

\* the sources and the dict chat returns
ChatReturn ==
    /\ pc = "chat_return"
    /\ response' = [query |-> query, visa_type |-> visa_type,
                    question_type |-> question_type, answer |-> answer,
                    sources |-> [j \in 1..Min(5, Len(relevant_docs)) |->
                                    source_of(relevant_docs[j])],
                    num_sources |-> Len(relevant_docs)]
    /\ pc' = "returned"
    /\ UNCHANGED << indexes, metas, hashseed, query, visa_type, question_type, caller_k, k,
                    hits, relevant_docs, prompt, answer >>
    /\ UNCHANGED << request_vars, rerank_vars, concurrent_vars >>

Next ==
    \/ ChatCall
    \/ ChatClassifyVisa
    \/ ChatClassifyQuestion
    \/ ChatSearch
    \/ ChatGenerate
    \/ ChatReturn

Spec == Init /\ [][Next]_vars

(***************************************************************************)
(* The reranking search of scripts/eval_retrieval.py: SpecRerank.          *)
(***************************************************************************)
\* the clauses a faiss_meta.json is made of; an entry without visa_tags has the
\* tags << >>
EvalClauses ==
    << [title |-> "F-2 status", section_hint |-> "", url |-> "https://law.example/0",
        text |-> "F-2 dependents of students", visa_tags |-> << "F2" >>],
       [title |-> "Study", section_hint |-> "8 CFR 214.2(f)(15)",
        url |-> "https://law.example/1",
        text |-> "an F-2 spouse may study", visa_tags |-> << "F2", "F1" >>],
       [title |-> "Employment", section_hint |-> "", url |-> "https://law.example/2",
        text |-> "F-1 students work on campus", visa_tags |-> << "F1" >>],
       [title |-> "H-4 work", section_hint |-> "", url |-> "https://law.example/3",
        text |-> "H-4 spouses may work", visa_tags |-> << >>],
       [title |-> "Dependents", section_hint |-> "", url |-> "https://law.example/4",
        text |-> "spouse and children", visa_tags |-> << "F2" >>],
       [title |-> "Rules", section_hint |-> "", url |-> "https://law.example/5",
        text |-> "f-2 rules", visa_tags |-> << "F2" >>],
       [title |-> "J-2", section_hint |-> "", url |-> "https://law.example/6",
        text |-> "J-2 dependents, F-2", visa_tags |-> << "J2", "F2" >>] >>

\* seq without the entries at the positions in dropped
Without(seq, dropped) ==
    LET kept(n) == Cardinality({ m \in 1..n : m \notin dropped })
        at(r) == CHOOSE n \in 1..Len(seq) : n \notin dropped /\ kept(n) = r
    IN  [r \in 1..kept(Len(seq)) |-> seq[at(r)]]

\* the faiss_meta.json files: all the clauses but at most MaxDropped of them, or
\* the first few of them
EvalCorpora ==
    { Without(EvalClauses, dropped) :
        dropped \in { d \in SUBSET (1..Len(EvalClauses)) : Cardinality(d) <= MaxDropped } }
    \cup { Take(EvalClauses, n) : n \in 0..4 }

\* s.upper()
RECURSIVE upper(_)
upper(s) ==
    IF s = "" THEN ""
    ELSE UpperChar(SubSeq(s, 1, 1)) \o upper(SubSeq(s, 2, Len(s)))

\* s.strip() of the blanks around s
RECURSIVE strip(_)
strip(s) ==
    IF s # "" /\ SubSeq(s, 1, 1) = " " THEN strip(SubSeq(s, 2, Len(s)))
    ELSE IF s # "" /\ SubSeq(s, Len(s), Len(s)) = " " THEN strip(SubSeq(s, 1, Len(s) - 1))
    ELSE s

\* vt_raw = ((ex or {}).get("visa_type") or "").strip().upper()
vt_raw_of(ex_visa_type) == upper(strip(ex_visa_type))

vt_map ==
    << << "F1", "F-1" >>, << "F2", "F-2" >>, << "J1", "J-1" >>, << "J2", "J-2" >>,
       << "H1B", "H-1B" >>, << "H4", "H-4" >> >>

\* vt_std = vt_map.get(vt_raw, vt_raw)
vt_std_of(vt_raw) ==
    IF \E n \in 1..Len(vt_map) : vt_map[n][1] = vt_raw
    THEN vt_map[CHOOSE n \in 1..Len(vt_map) : vt_map[n][1] = vt_raw][2]
    ELSE vt_raw

DependentLabels == { "F-2", "J-2", "H-4" }
DependentKeywords == << "dependent", "dependents", "spouse", "spouses" >>

\* hay = title + " " + section_hint + " " + text, and hay.lower(), of the clauses
HayOf == [doc \in Range(EvalClauses) |-> doc.title \o " " \o doc.section_hint \o " " \o doc.text]
LowOf == [doc \in Range(EvalClauses) |-> lower(HayOf[doc])]

\* the condition of the prefilter on one clause
passes_prefilter(doc, vt_std) ==
    \/ vt_std # "" /\ Contains(vt_std, HayOf[doc])
    \/ \E n \in 1..Len(DependentKeywords) : Contains(DependentKeywords[n], LowOf[doc])

\* a variant of the prefilter without its fallback
prefilter_always(cands, meta, vt_std) ==
    IF vt_std \in DependentLabels
    THEN SelectSeq(cands, LAMBDA c : passes_prefilter(meta[c.i + 1], vt_std))
    ELSE cands

\* the prefilter for dependent visas: candidates after it
prefilter(cands, meta, vt_std) ==
    IF vt_std \in DependentLabels
    THEN LET filtered == SelectSeq(cands, LAMBDA c : passes_prefilter(meta[c.i + 1], vt_std))
         IN  IF Len(filtered) >= 5 THEN filtered ELSE cands
    ELSE cands

\* the candidates tagged with vt_raw
tagged_with(cands, meta, vt_raw) ==
    SelectSeq(cands, LAMBDA c : vt_raw \in Range(meta[c.i + 1].visa_tags))

\* the first tag preference: candidates after it
prefer_tagged(cands, meta, vt_raw) ==
    IF vt_raw # ""
    THEN LET tagged == tagged_with(cands, meta, vt_raw)
         IN  IF Len(tagged) >= 5 THEN tagged ELSE cands
    ELSE cands

\* the second tag preference: candidates after it
keep_tagged(cands, meta, vt_raw) ==
    IF vt_raw # ""
    THEN LET tagged == tagged_with(cands, meta, vt_raw)
         IN  IF tagged # << >> THEN tagged ELSE cands
    ELSE cands

\* boost(doc), in the units of the similarities: 0.2 for the raw tag, 0.1 for the
\* standardized label in the clause, 0.05 for each dependent keyword in it when
\* the visa is a dependent one
boost(doc, vt_raw, vt_std) ==
    (IF vt_raw # "" /\ vt_raw \in Range(doc.visa_tags) THEN 2000000 ELSE 0)
    + (IF vt_std # "" /\ Contains(vt_std, HayOf[doc]) THEN 1000000 ELSE 0)
    + (IF vt_std \in DependentLabels
       THEN 500000 * Cardinality({ n \in 1..Len(DependentKeywords) :
                                     Contains(DependentKeywords[n], LowOf[doc]) })
       ELSE 0)

\* cand_texts: title + "\n" + text of a clause, in lower case as the vectorizer
\* reads it
CandTextOf == [doc \in Range(EvalClauses) |-> lower(doc.title \o "\n" \o doc.text)]

\* the questions of the searches, and the words of each as the vectorizer reads
\* them
RerankQueries == { "F-2: may a spouse study dependents spouse", "work on campus" }
WordsOf == [q \in RerankQueries |-> Range(split(lower(q), " ")) \ { "" }]

\* sims: the lexical similarity of q to each candidate, in percent.  The cosine
\* of the TF-IDF vectors is stood for by the share of the words of q that occur in
\* the candidate's text: like the cosine it is a function of q and the texts alone
\* and is 0 when they share no word.
tfidf_sims(q, cands, meta) ==
    LET words == WordsOf[q]
    IN  [n \in 1..Len(cands) |->
            IF words = {} THEN 0
            ELSE (100 * Cardinality({ w \in words :
                                        Contains(w, CandTextOf[meta[cands[n].i + 1]]) }))
                 \div Cardinality(words)]

\* blended: s + 0.15 * sim + boost(meta[i]) for each candidate
blend(q, cands, meta, vt_raw, vt_std) ==
    LET sim_list == tfidf_sims(q, cands, meta)
    IN  [n \in 1..Len(cands) |->
            [i |-> cands[n].i,
             score |-> cands[n].s + 15000 * sim_list[n]
                       + boost(meta[cands[n].i + 1], vt_raw, vt_std)]]

\* item put into the list sorted, which is in descending order of score, behind
\* the items that are not below it
RECURSIVE insert_desc(_, _)
insert_desc(sorted, item) ==
    IF sorted = << >> THEN << item >>
    ELSE IF sorted[1].score >= item.score
         THEN << sorted[1] >> \o insert_desc(Tail(sorted), item)
         ELSE << item >> \o sorted

\* a variant that puts the later of two items of one score first
RECURSIVE sorted_desc_unstable(_)
sorted_desc_unstable(items) ==
    IF items = << >> THEN << >>
    ELSE insert_desc(sorted_desc_unstable(Tail(items)), items[1])

\* sorted(items, key=lambda x: x[1], reverse=True): items of one score stay in
\* their order
RECURSIVE sorted_desc(_)
sorted_desc(items) ==
    IF items = << >> THEN << >>
    ELSE insert_desc(sorted_desc(SubSeq(items, 1, Len(items) - 1)), items[Len(items)])

\* [i for i, _ in reranked[:k]]
top_ids(ranked, depth) == [n \in 1..Min(depth, Len(ranked)) |-> ranked[n].i]

\* index.search(qv, 50)
PoolDepth == 50

\* the visa_type fields of the examples and the k of the searches
ExVisas == { "", " f2 ", "H4", "F1" }
RerankKs == { 5 }

\* a variant in which the search writes the blended score into the rows it was
\* given
rows_after_rerank_scored(rows, blended) ==
    [r \in 1..Len(rows) |->
        IF \E n \in 1..Len(blended) : blended[n].i = rows[r].i
        THEN [rows[r] EXCEPT !.s =
                 blended[CHOOSE n \in 1..Len(blended) : blended[n].i = rows[r].i].score]
        ELSE rows[r]]

\* what the index gives for the same query after a search: the search writes to
\* nothing it was given
rows_after_rerank(rows, blended) == rows

InitRerank ==
    /\ indexes = { "general" }
    /\ \E corpus \in EvalCorpora : metas = [name \in indexes |-> corpus]
    /\ hashseed = 0
    /\ query \in RerankQueries
    /\ pc = "rerank_retrieve"
    /\ visa_type = ""
    /\ question_type = ""
    /\ caller_k \in RerankKs
    /\ k = caller_k
    /\ hits = << >>
    /\ relevant_docs = NoDocs
    /\ prompt = NoPrompt
    /\ answer = ""
    /\ response = NoResponse
    /\ calls = NoCalls
    /\ outcome = ""
    /\ context = ""
    /\ ex_visa \in ExVisas
    /\ pool = << >>
    /\ candidates = << >>
    /\ reranked = << >>
    /\ earlier = << >>
    /\ NoRequests

chat_vars ==
    << indexes, metas, hashseed, query, visa_type, question_type, caller_k, k,
       relevant_docs, prompt, answer, response, calls, outcome, context >>

\* scores, ids = index.search(qv, 50) and the candidates with an id; the index
\* gives the same rows for the same query, so a second search starts from the
\* pool of the first
RerankRetrieve ==
    /\ pc = "rerank_retrieve"
    /\ IF earlier = << >>
       THEN \E rows \in index_search(Len(metas["general"]), PoolDepth) :
                pool' = LET found == SelectSeq(rows, LAMBDA row : row.i >= 0)
                        IN  [n \in 1..Len(found) |->
                                [i |-> found[n].i, s |-> found[n].score]]
       ELSE pool' = pool
    /\ candidates' = pool'
    /\ reranked' = << >>
    /\ pc' = "rerank_prefilter"
    /\ UNCHANGED << chat_vars, concurrent_vars, hits, ex_visa, earlier >>

\* the prefilter for dependent visas
RerankPrefilter ==
    /\ pc = "rerank_prefilter"
    /\ candidates' = prefilter(candidates, metas["general"], vt_std_of(vt_raw_of(ex_visa)))
    /\ pc' = "rerank_prefer_tagged"
    /\ UNCHANGED << chat_vars, concurrent_vars, hits, ex_visa, pool, reranked, earlier >>

\* the first tag preference
RerankPreferTagged ==
    /\ pc = "rerank_prefer_tagged"
    /\ candidates' = prefer_tagged(candidates, metas["general"], vt_raw_of(ex_visa))
    /\ pc' = "rerank_keep_tagged"
    /\ UNCHANGED << chat_vars, concurrent_vars, hits, ex_visa, pool, reranked, earlier >>

\* the second tag preference
RerankKeepTagged ==
    /\ pc = "rerank_keep_tagged"
    /\ candidates' = keep_tagged(candidates, metas["general"], vt_raw_of(ex_visa))
    /\ pc' = "rerank_blend"
    /\ UNCHANGED << chat_vars, concurrent_vars, hits, ex_visa, pool, reranked, earlier >>

\* the blended scores, the sort and the ids returned
RerankBlend ==
    /\ pc = "rerank_blend"
    /\ LET vt_raw == vt_raw_of(ex_visa)
           blended == blend(query, candidates, metas["general"], vt_raw, vt_std_of(vt_raw))
       IN  /\ reranked' = top_ids(sorted_desc(blended), k)
           /\ pool' = rows_after_rerank(pool, blended)
    /\ pc' = "rerank_done"
    /\ UNCHANGED << chat_vars, concurrent_vars, hits, ex_visa, candidates, earlier >>

\* the caller keeps the ids and calls search again with the same arguments
RerankAgain ==
    /\ pc = "rerank_done"
    /\ earlier = << >>
    /\ earlier' = << reranked >>
    /\ pc' = "rerank_retrieve"
    /\ candidates' = << >>
    /\ reranked' = << >>
    /\ UNCHANGED << chat_vars, concurrent_vars, hits, ex_visa, pool >>

NextRerank ==
    \/ RerankRetrieve
    \/ RerankPrefilter
    \/ RerankPreferTagged
    \/ RerankKeepTagged
    \/ RerankBlend
    \/ RerankAgain

SpecRerank == InitRerank /\ [][NextRerank]_vars

(***************************************************************************)
(* inject_knowledge_base applied to a query, a context and a visa type:     *)
(* SpecInject.                                                             *)
(***************************************************************************)
InjectQueries ==
    { "How many days of unemployment on OPT", "CPT and OPT limits", "h1b cap 65000",
      "What is the H-1B QUOTA", "can my spouse work", "waiver of the 2-year rule",
      "hello", "curricular practical training" }

InjectContexts == { "", "Source 1: a clause\nContent: its text\n---" }

InitInject ==
    /\ indexes = {}
    /\ metas = << >>
    /\ hashseed = 0
    /\ query \in InjectQueries
    /\ pc = "inject"
    /\ visa_type \in IndexNames
    /\ question_type = ""
    /\ caller_k = 0
    /\ k = 0
    /\ hits = << >>
    /\ relevant_docs = NoDocs
    /\ prompt = NoPrompt
    /\ answer = ""
    /\ response = NoResponse
    /\ calls = NoCalls
    /\ outcome = ""
    /\ context \in InjectContexts
    /\ NoRerank
    /\ NoRequests

\* inject_knowledge_base(query, context, visa_type); what it returns is kept as
\* the context of the prompt
InjectKnowledgeBase ==
    /\ pc = "inject"
    /\ prompt' = [prompt EXCEPT !.context = inject_knowledge_base(query, context, visa_type)]
    /\ pc' = "injected"
    /\ UNCHANGED << indexes, metas, hashseed, query, visa_type, question_type, caller_k, k,
                    hits, relevant_docs, answer, response >>
    /\ UNCHANGED << request_vars, rerank_vars, concurrent_vars >>

NextInject == InjectKnowledgeBase

SpecInject == InitInject /\ [][NextInject]_vars

(***************************************************************************)
(* Calls of chat in progress at the same time on the one chatbot of        *)
(* app/api.py: SpecConcurrent.  The indexes, the stored metadata and the   *)
(* hash salt belong to the process; every call has its position, and its   *)
(* local variables in a frame of its own.                                  *)
(***************************************************************************)
Requests == 1..NumRequests

\* the queries of the calls: H4 with an index, H1B without one, a typo
ConcurrentQueries == { "H4 spouse work", "how to apply for h1b", "hvb visa" }

\* a variant in which the calls keep their local variables in one place on the
\* instance
frame_of_instance(r) == 1

\* the frame that holds the local variables of call r
frame_of(r) == r

\* the local variables of chat before any is assigned
NoFrame ==
    [query |-> "", visa_type |-> "", question_type |-> "", relevant_docs |-> << >>,
     answer |-> ""]

\* a caller that has not called yet
NoCall == [pc |-> "idle", asked |-> "", rows |-> << >>, result |-> NoResponse]

\* chatbot = ImmigrationRAGChatbot() in a process of salt 0: the index of H1B is
\* missing
InitConcurrent ==
    /\ indexes = IndexNames \ { "H1B" }
    /\ metas = [name \in indexes |-> Corpus(name, CorpusSize(name))]
    /\ hashseed = 0
    /\ query = ""
    /\ pc = "serving"
    /\ visa_type = ""
    /\ question_type = ""
    /\ caller_k = 0
    /\ k = 0
    /\ hits = << >>
    /\ relevant_docs = NoDocs
    /\ prompt = NoPrompt
    /\ answer = ""
    /\ response = NoResponse
    /\ calls = NoCalls
    /\ outcome = ""
    /\ context = ""
    /\ NoRerank
    /\ requests = [r \in Requests |-> NoCall]
    /\ frames = [f \in Requests |-> NoFrame]

\* the variables of the one-call specifications
single_vars ==
    << query, pc, visa_type, question_type, caller_k, k, hits, relevant_docs, prompt,
       answer, response, calls, outcome, context >>

\* caller r calls chatbot.chat(query)
RequestCall(r) ==
    /\ requests[r].pc \in { "idle", "returned", "raised" }
    /\ \E q \in ConcurrentQueries :
          /\ requests' = [requests EXCEPT ![r] =
                             [NoCall EXCEPT !.pc = "chat_classify_visa", !.asked = q]]
          /\ frames' = [frames EXCEPT ![frame_of(r)] = [NoFrame EXCEPT !.query = q]]
    /\ UNCHANGED << indexes, metas, hashseed, single_vars, rerank_vars >>

\* visa_type = self.classify_visa_type(query), and the typo clarification branch
RequestClassifyVisa(r) ==
    /\ requests[r].pc = "chat_classify_visa"
    /\ LET local == frames[frame_of(r)]
           found == classify_visa_type(local.query, hashseed)
       IN  /\ frames' = [frames EXCEPT ![frame_of(r)].visa_type = found]
           /\ IF StartsWith(found, "typo_clarification:")
              THEN requests' = [requests EXCEPT
                      ![r].pc = "returned",
                      ![r].result = [query |-> local.query,
                                     visa_type |-> "typo_clarification",
                                     question_type |-> "clarification",
                                     answer |-> clarification_msg(found),
                                     sources |-> << >>, num_sources |-> 0]]
              ELSE requests' = [requests EXCEPT ![r].pc = "chat_classify_question"]
    /\ UNCHANGED << indexes, metas, hashseed, single_vars, rerank_vars >>

\* question_type = self.classify_question_type(query)
RequestClassifyQuestion(r) ==
    /\ requests[r].pc = "chat_classify_question"
    /\ frames' = [frames EXCEPT ![frame_of(r)].question_type =
                     classify_question_type(frames[frame_of(r)].query)]
    /\ requests' = [requests EXCEPT ![r].pc = "chat_search"]
    /\ UNCHANGED << indexes, metas, hashseed, single_vars, rerank_vars >>

\* relevant_docs = self.search_relevant_docs(query, visa_type): the index and the
\* stored metadata it reads are the shared ones; rows is what the index
\* answered this call
RequestSearch(r) ==
    /\ requests[r].pc = "chat_search"
    /\ LET local == frames[frame_of(r)]
       IN  IF local.visa_type \notin indexes
           THEN /\ frames' = [frames EXCEPT ![frame_of(r)].relevant_docs = << >>]
                /\ requests' = [requests EXCEPT ![r].pc = "chat_generate"]
                /\ UNCHANGED metas
           ELSE LET depth == retrieval_depth(classify_question_type(local.query), 5)
                IN  \E rows \in index_search(Len(metas[local.visa_type]), depth) :
                       /\ frames' = [frames EXCEPT ![frame_of(r)].relevant_docs =
                                        collect_docs(rows, metas[local.visa_type])]
                       /\ metas' = [metas EXCEPT ![local.visa_type] =
                                       stored_after_scoring(@, rows)]
                       /\ requests' = [requests EXCEPT ![r].pc = "chat_generate",
                                                       ![r].rows = rows]
    /\ UNCHANGED << indexes, hashseed, single_vars, rerank_vars >>

\* answer = self.generate_answer(query, relevant_docs, visa_type); the prompt is
\* a local of generate_answer, posted and gone when it returns
RequestGenerate(r) ==
    /\ requests[r].pc = "chat_generate"
    /\ LET local == frames[frame_of(r)]
       IN  IF local.relevant_docs = << >>
           THEN /\ frames' = [frames EXCEPT ![frame_of(r)].answer =
                                 fallback_answer(local.visa_type)]
                /\ requests' = [requests EXCEPT ![r].pc = "chat_return"]
           ELSE \E o \in GenerationOutcomes, caught \in BOOLEAN :
                   IF o = "ok_not_json" /\ ~caught
                   THEN /\ requests' = [requests EXCEPT ![r].pc = "raised"]
                        /\ UNCHANGED frames
                   ELSE /\ frames' = [frames EXCEPT ![frame_of(r)].answer =
                                         generated_answer(o)]
                        /\ requests' = [requests EXCEPT ![r].pc = after_generation(o)]
    /\ UNCHANGED << indexes, metas, hashseed, single_vars, rerank_vars >>

\* the sources and the dict chat returns to caller r
RequestReturn(r) ==
    /\ requests[r].pc = "chat_return"
    /\ LET local == frames[frame_of(r)]
       IN  requests' = [requests EXCEPT
              ![r].pc = "returned",
              ![r].result = [query |-> local.query, visa_type |-> local.visa_type,
                             question_type |-> local.question_type,
                             answer |-> local.answer,
                             sources |-> [j \in 1..Min(5, Len(local.relevant_docs)) |->
                                             source_of(local.relevant_docs[j])],
                             num_sources |-> Len(local.relevant_docs)]]
    /\ UNCHANGED << indexes, metas, hashseed, single_vars, rerank_vars, frames >>

NextConcurrent ==
    \E r \in Requests :
        \/ RequestCall(r)
        \/ RequestClassifyVisa(r)
        \/ RequestClassifyQuestion(r)
        \/ RequestSearch(r)
        \/ RequestGenerate(r)
        \/ RequestReturn(r)

SpecConcurrent == InitConcurrent /\ [][NextConcurrent]_vars

(***************************************************************************)
(* Properties.                                                             *)
(***************************************************************************)
GreetingPhrases ==
    { "hi", "hello", "hey", "good morning", "good afternoon", "good evening",
      "how are you", "what's up" }

\* phrase stands in text with no letter, digit or underscore next to it
HoldsWholeWord(phrase, text) ==
    \E i \in 1..(Len(text) - Len(phrase) + 1) :
        LET j == i + Len(phrase)
        IN  /\ SubSeq(text, i, j - 1) = phrase
            /\ i = 1 \/ ~IsWordChar(SubSeq(text, i - 1, i - 1))
            /\ j > Len(text) \/ ~IsWordChar(SubSeq(text, j, j))

HasGreeting(q) ==
    LET text == lower(q) IN \E g \in GreetingPhrases : HoldsWholeWord(g, text)

CategoryOrder == << "F1", "F2", "H1B", "H4", "J1", "J2" >>
VisaLabels == Range(CategoryOrder)
Categories == 1..Len(CategoryOrder)

VisaCodeTokens ==
    << {"f-1", "f1"}, {"f-2", "f2"}, {"h-1b", "h1b"}, {"h-4", "h4"}, {"j-1", "j1"},
       {"j-2", "j2"} >>

\* per category c: 3 for each visa-code token of c in q, 1 for each other keyword
\* of c in q
CategoryScores(q) ==
    LET text == lower(q)
    IN  [c \in Categories |->
            LET found == { kw \in Range(visa_keywords[c].keywords) : Contains(kw, text) }
            IN  3 * Cardinality(found \cap VisaCodeTokens[c])
                + Cardinality(found \ VisaCodeTokens[c])]

TypoVariants == { typo_mapping[i].typo : i \in 1..Len(typo_mapping) }

HasTypoVariant(q) == LET text == lower(q) IN \E t \in TypoVariants : Contains(t, text)

\* v is "typo_clarification:" followed by suggestions, none of them empty
IsClarification(v) ==
    /\ StartsWith(v, "typo_clarification:")
    /\ \A sug \in Range(split(split(v, ":")[2], ",")) : sug # ""

\* C1: a query holding a greeting phrase as a whole word is classified "general",
\* whatever visa-code tokens, keywords or typo variants it also holds.
C1_GreetingIsGeneral ==
    (pc = "classified" /\ HasGreeting(query)) => visa_type = "general"

C1_Witness ==
    /\ pc = "classified"
    /\ HasGreeting(query)
    /\ \E c \in Categories : CategoryScores(query)[c] >= 3
    /\ visa_type = "general"

\* C2: a query without greeting in which some category scores above 0 is classified
\* as the category of the highest score, the first declared one among equals.
C2_HighestScoreFirstDeclared ==
    (pc = "classified" /\ ~HasGreeting(query)) =>
        LET score == CategoryScores(query)
        IN  (\E c \in Categories : score[c] > 0) =>
                \E c \in Categories :
                    /\ visa_type = CategoryOrder[c]
                    /\ \A d \in Categories : score[d] <= score[c]
                    /\ \A d \in 1..(c - 1) : score[d] < score[c]

C2_Witness ==
    /\ pc = "classified"
    /\ ~HasGreeting(query)
    /\ LET score == CategoryScores(query)
       IN  \E c, d \in Categories :
              /\ c < d
              /\ score[c] >= 3
              /\ score[d] = score[c]
              /\ \A e \in Categories : score[e] <= score[c]
              /\ visa_type = CategoryOrder[c]

\* C3: a query without greeting in which every category scores 0 is classified as a
\* clarification request if it holds a typo variant and as "general" if it holds
\* none, and never as one of the six visa labels.
C3_NoScoreClarifiesOrGeneral ==
    (pc = "classified" /\ ~HasGreeting(query)) =>
        LET score == CategoryScores(query)
        IN  (\A c \in Categories : score[c] = 0) =>
                /\ visa_type \notin VisaLabels
                /\ IF HasTypoVariant(query) THEN IsClarification(visa_type)
                   ELSE visa_type = "general"

C3_Witness ==
    /\ pc = "classified"
    /\ ~HasGreeting(query)
    /\ \A c \in Categories : CategoryScores(query)[c] = 0
    /\ HasTypoVariant(query)
    /\ IsClarification(visa_type)

\* C7: the classifiers are deterministic: the values they returned in this run are
\* the values they return for the same query in every run, the order of the
\* suggestions of a clarification request included.
C7_SameValueInEveryRun ==
    pc = "classified" =>
        /\ \A seed \in Seeds : classify_visa_type(query, seed) = visa_type
        /\ classify_question_type(query) = question_type

TypeOrder == << "technical", "procedural", "emergency", "comparison" >>
TypeKeywords ==
    << technical_keywords, procedural_keywords, emergency_keywords, comparison_keywords >>
Types == 1..Len(TypeOrder)

\* per type t: the number of keywords of t that are substrings of the lowercased q
KeywordCounts(q) ==
    LET text == lower(q)
    IN  [t \in Types |-> Cardinality({ kw \in Range(TypeKeywords[t]) : Contains(kw, text) })]

\* C8: the question type is the type with the largest keyword count, the earliest
\* of technical, procedural, emergency, comparison among equals, and "general"
\* when all four counts are 0.
C8_LargestCountFirstDeclared ==
    pc = "classified" =>
        LET count == KeywordCounts(query)
        IN  IF \A t \in Types : count[t] = 0
            THEN question_type = "general"
            ELSE \E t \in Types :
                    /\ question_type = TypeOrder[t]
                    /\ \A u \in Types : count[u] <= count[t]
                    /\ \A u \in 1..(t - 1) : count[u] < count[t]

C8_Witness ==
    /\ pc = "classified"
    /\ LET count == KeywordCounts(query)
       IN  \E t, u \in Types :
              /\ t < u
              /\ count[t] > 0
              /\ count[u] = count[t]
              /\ \A w \in Types : count[w] <= count[t]
              /\ question_type = TypeOrder[t]

\* C4, as claimed: chat answers "hvb work visa" with a typo clarification whose
\* suggestions include "H-1B (work visa)".
C4_HvbWorkVisaClarifies ==
    (pc = "returned" /\ query = "hvb work visa") =>
        /\ response.visa_type = "typo_clarification"
        /\ Contains("H-1B (work visa)", response.answer)

\* C4, amended: "hvb work visa" holds the typo variant "hvb" but also the H1B
\* keyword "work", so H1B scores 1 and chat returns visa_type "H1B"; "hvb visa",
\* where no category scores, is answered with a typo clarification whose
\* suggestions include "H-1B (work visa)".
C4_HvbWorkVisaIsH1B ==
    /\ (pc = "returned" /\ query = "hvb work visa") =>
          /\ HasTypoVariant(query)
          /\ CategoryScores(query) = << 0, 0, 1, 0, 0, 0 >>
          /\ response.visa_type = "H1B"
    /\ (pc = "returned" /\ query = "hvb visa") =>
          /\ HasTypoVariant(query)
          /\ CategoryScores(query) = << 0, 0, 0, 0, 0, 0 >>
          /\ response.visa_type = "typo_clarification"
          /\ Contains("* H-1B (work visa)\n", response.answer)
          /\ response.sources = << >>
          /\ response.num_sources = 0

C4_Witness ==
    /\ pc = "returned"
    /\ query = "hvb work visa"
    /\ response.visa_type = "H1B"

\* C5, as claimed: "Can F-1 students work more than 20 hours during school?" gives
\* visa_type F1, question_type general or procedural and retrieval depth 5.
C5_StudentWorkHoursDepth5 ==
    (pc = "returned" /\ query = "Can F-1 students work more than 20 hours during school?") =>
        /\ response.visa_type = "F1"
        /\ response.question_type \in { "general", "procedural" }
        /\ "F1" \in indexes => k = 5

\* C5, amended: the query gives visa_type F1 and, through the technical keyword
\* "hours", question_type technical; the retrieval depth is 8 when an F1 index is
\* loaded.
C5_StudentWorkHoursTechnical ==
    (pc = "returned" /\ query = "Can F-1 students work more than 20 hours during school?") =>
        /\ response.visa_type = "F1"
        /\ KeywordCounts(query) = << 1, 0, 0, 0 >>
        /\ response.question_type = "technical"
        /\ "F1" \in indexes => k = 8

C5_Witness ==
    /\ pc = "returned"
    /\ query = "Can F-1 students work more than 20 hours during school?"
    /\ "F1" \in indexes
    /\ k = 8
    /\ response.question_type = "technical"
    /\ response.num_sources > 0

\* C6, as claimed: whichever indexes are loaded, chat answers "hello" with
\* visa_type general, the welcome message, no sources and num_sources 0.
C6_HelloIsWelcomed ==
    (pc = "returned" /\ query = "hello") =>
        /\ response.visa_type = "general"
        /\ response.answer = WelcomeMessage
        /\ response.sources = << >>
        /\ response.num_sources = 0

\* C6, amended: whichever indexes are loaded, chat answers "hello" with visa_type
\* general; retrieval finds nothing when no general index is loaded, and whenever
\* retrieval finds nothing the answer is the welcome message, with no sources and
\* num_sources 0.
C6_HelloIsWelcomedWithoutDocs ==
    (pc = "returned" /\ query = "hello") =>
        /\ response.visa_type = "general"
        /\ "general" \notin indexes => relevant_docs = << >>
        /\ relevant_docs = << >> =>
              /\ response.answer = WelcomeMessage
              /\ response.sources = << >>
              /\ response.num_sources = 0

C6_Witness ==
    /\ pc = "returned"
    /\ query = "hello"
    /\ "general" \notin indexes
    /\ "F1" \in indexes
    /\ response.answer = WelcomeMessage
    /\ response.num_sources = 0

\* the question types of the texts search_relevant_docs is applied to
SearchQuestionTypes == [q \in SearchQueries |-> classify_question_type(q)]

\* the rank in hits of the clause a returned document is a copy of
RankOf(doc) ==
    CHOOSE r \in 1..Len(hits) :
        /\ hits[r].i >= 0
        /\ metas[visa_type][hits[r].i + 1].title = doc.title

\* C9: whatever k the caller passed, the search depth is 8 for a technical,
\* procedural or emergency query and 5 otherwise; at most k documents are
\* returned, in the order of the index search, by descending similarity.
C9_DepthAndOrder ==
    (pc = "searched" /\ visa_type \in indexes) =>
        /\ k = IF SearchQuestionTypes[query] \in { "technical", "procedural", "emergency" }
               THEN 8 ELSE 5
        /\ Len(hits) = k
        /\ Len(relevant_docs) <= k
        /\ \A j \in 1..Len(relevant_docs) :
              /\ \E r \in 1..Len(hits) :
                    /\ hits[r].i >= 0
                    /\ metas[visa_type][hits[r].i + 1].title = relevant_docs[j].title
              /\ relevant_docs[j].score = hits[RankOf(relevant_docs[j])].score
        /\ \A j \in 1..(Len(relevant_docs) - 1) :
              /\ RankOf(relevant_docs[j]) < RankOf(relevant_docs[j + 1])
              /\ relevant_docs[j].score >= relevant_docs[j + 1].score

C9_Witness ==
    /\ pc = "searched"
    /\ caller_k = 1
    /\ k = 8
    /\ Len(relevant_docs) = 8
    /\ relevant_docs[1].score > relevant_docs[8].score

\* a returned document is a copy of the clause of row r of the search result
ReturnedFrom(r) ==
    \E j \in 1..Len(relevant_docs) :
        /\ relevant_docs[j].score = hits[r].score
        /\ hits[r].i >= 0 => relevant_docs[j].title = metas[visa_type][hits[r].i + 1].title

\* C10: a row of the search result is returned if and only if its position is not
\* negative and its similarity is above 0.1: a row at exactly 0.1 is dropped, a
\* row at 0.1000001 is kept, a row at position -1 is dropped.
C10_KeptIffAboveThreshold ==
    (pc = "searched" /\ visa_type \in indexes) =>
        \A r \in 1..Len(hits) :
            /\ ReturnedFrom(r) <=> (hits[r].i >= 0 /\ hits[r].score > 1000000)
            /\ hits[r].score = 1000000 => ~ReturnedFrom(r)
            /\ (hits[r].i >= 0 /\ hits[r].score = 1000001) => ReturnedFrom(r)
            /\ hits[r].i = -1 => ~ReturnedFrom(r)

C10_Witness ==
    /\ pc = "searched"
    /\ visa_type \in indexes
    /\ \E a, b, c \in 1..Len(hits) :
          /\ hits[a].i >= 0 /\ hits[a].score = 1000001 /\ ReturnedFrom(a)
          /\ hits[b].i >= 0 /\ hits[b].score = 1000000 /\ ~ReturnedFrom(b)
          /\ hits[c].i = -1 /\ ~ReturnedFrom(c)

\* the request has classified its query as a visa type that has no index
SearchesWithoutIndex ==
    /\ pc \in { "chat_generate", "chat_return", "returned", "raised" }
    /\ ~StartsWith(visa_type, "typo_clarification:")
    /\ visa_type \notin indexes

\* C11: when no index is loaded for the classified visa type, the search returns
\* an empty list without raising and without a call of the embedding model, and
\* chat returns the welcome message for visa_type general and the
\* not-enough-information message otherwise, with no sources and num_sources 0,
\* without a call of the generation service.
C11_NoIndexFallsBack ==
    SearchesWithoutIndex =>
        /\ pc # "raised"
        /\ calls.search = 1
        /\ relevant_docs = << >>
        /\ calls.encode = 0
        /\ calls.generate = 0
        /\ pc = "returned" =>
              /\ response.visa_type = visa_type
              /\ response.answer = IF visa_type = "general" THEN WelcomeMessage
                                   ELSE NoInfoMessage
              /\ response.sources = << >>
              /\ response.num_sources = 0

C11_Witness ==
    /\ pc = "returned"
    /\ response.visa_type = "H1B"
    /\ "H1B" \notin indexes
    /\ "F1" \in indexes
    /\ calls.search = 1
    /\ response.answer = NoInfoMessage

\* the standardized visa label of the search
StdLabel == vt_std_of(vt_raw_of(ex_visa))

\* the candidates of the pool whose clause names the label or a dependent keyword
PoolPassing ==
    SelectSeq(pool, LAMBDA c : passes_prefilter(metas["general"][c.i + 1], StdLabel))

\* C12: for the labels F-2, J-2 and H-4 the prefilter replaces the pool by the
\* filtered pool only when that has at least 5 candidates and otherwise keeps the
\* pool, so it leaves fewer than 5 candidates only if the pool had fewer than 5;
\* for any other label it removes nothing.
C12_PrefilterKeepsFive ==
    pc = "rerank_prefer_tagged" =>
        /\ Len(pool) >= 5 => Len(candidates) >= 5
        /\ StdLabel \in { "F-2", "J-2", "H-4" } =>
              candidates = IF Len(PoolPassing) >= 5 THEN PoolPassing ELSE pool
        /\ StdLabel \notin { "F-2", "J-2", "H-4" } => candidates = pool

C12_Witness ==
    /\ pc = "rerank_prefer_tagged"
    /\ StdLabel = "F-2"
    /\ Len(candidates) = 5
    /\ Len(pool) = 7

FactBlocks ==
    << [visas |-> { "F1" }, triggers |-> { "unemployment", "limit", "days", "opt" },
        block |-> "OPT Unemployment Limits (Knowledge Base):\n* Standard OPT: 90 days total during the 12-month OPT period\n* STEM OPT: 150 days total (90 days from initial OPT + 60 days during STEM extension)\nSource: USCIS Policy Manual, Volume 2, Part F, Chapter 5"],
       [visas |-> { "F1" }, triggers |-> { "cpt", "curricular", "practical training" },
        block |-> "CPT Limits (Knowledge Base):\n* Full-time CPT: 12 months or more of full-time CPT eliminates OPT eligibility at the same educational level\n* Part-time CPT: Part-time CPT does not reduce OPT eligibility\nSource: 8 CFR Sec. 214.2(f)(10)(i)"],
       [visas |-> { "H1B" }, triggers |-> { "cap", "quota", "limit", "65,000", "20,000" },
        block |-> "H-1B Cap Information (Knowledge Base):\n* Regular Cap: 65,000 visas per fiscal year\n* Masters Cap: 20,000 additional visas for advanced degree holders\n* Exemptions: H-1B workers at institutions of higher education, nonprofit research organizations, and government research organizations are cap-exempt\nSource: INA Sec. 214(g)"],
       [visas |-> { "H4" }, triggers |-> { "work", "employment", "ead", "i-765" },
        block |-> "H-4 EAD Eligibility (Knowledge Base):\n* Requirements: H-4 spouse must have H-1B spouse with approved I-140 or H-1B status extended beyond 6 years under AC21\n* Form: Form I-765\n* Processing Time: 3-6 months\nSource: 8 CFR Sec. 274a.12(c)(26)"],
       [visas |-> { "J1", "J2" },
        triggers |-> { "waiver", "2-year", "home residency", "212(e)" },
        block |-> "J-1 Waiver Categories (Knowledge Base):\n* No Objection: Home country government provides no-objection statement\n* Interested Government: U.S. federal agency requests waiver\n* Persecution: Fear of persecution based on race, religion, or political opinion\n* Exceptional Hardship: Exceptional hardship to U.S. citizen or permanent resident spouse/child\n* Conrad 30: Physicians working in underserved areas\nSource: INA Sec. 212(e)"] >>

\* the fact blocks of the rules of visa that have a trigger keyword in text
MatchedBlocks(text, visa) ==
    LET matched == SelectSeq(FactBlocks,
                             LAMBDA rule : /\ visa \in rule.visas
                                           /\ \E t \in rule.triggers : Contains(t, text))
    IN  [n \in 1..Len(matched) |-> matched[n].block]

\* C15: inject_knowledge_base returns the context unchanged when no rule of the
\* visa type has a trigger keyword in the lowercased query, as always for F2 and
\* general; otherwise it returns the context followed by the fact blocks of
\* exactly the matching rules, in the order of their declaration, each ending
\* with its citation line; for H1B with "cap" in the query the result holds
\* "Regular Cap: 65,000 visas per fiscal year" and the citation of INA 214(g).
C15_InjectAppendsMatchedBlocks ==
    pc = "injected" =>
        LET blocks == MatchedBlocks(lower(query), visa_type)
        IN  /\ blocks = << >> => prompt.context = context
            /\ visa_type \in { "F2", "general" } => prompt.context = context
            /\ blocks # << >> =>
                  prompt.context = context \o "\n\n" \o join("\n", blocks)
            /\ (visa_type = "H1B" /\ Contains("cap", lower(query))) =>
                  /\ Contains("Regular Cap: 65,000 visas per fiscal year", prompt.context)
                  /\ Contains("INA Sec. 214(g)", prompt.context)

C15_Witness ==
    /\ pc = "injected"
    /\ visa_type = "F1"
    /\ query = "CPT and OPT limits"
    /\ context # ""
    /\ Len(MatchedBlocks(lower(query), visa_type)) = 2
    /\ prompt.context # context

\* generate_answer has built a prompt for the request
PromptBuilt ==
    /\ pc \in { "chat_return", "returned", "raised" }
    /\ relevant_docs # << >>

\* C16: when a prompt is built, visa type general selects the general template
\* whatever the question type; otherwise technical, procedural, emergency and
\* comparison select their own template and any other question type the default
\* one; "difference between F-1 OPT and CPT" gives F1, comparison and the
\* comparison template.
C16_TemplateByVisaThenQuestion ==
    /\ PromptBuilt =>
          /\ visa_type = "general" => prompt.template = "general"
          /\ (visa_type # "general"
              /\ question_type \in { "technical", "procedural", "emergency", "comparison" })
                => prompt.template = question_type
          /\ (visa_type # "general"
              /\ question_type \notin { "technical", "procedural", "emergency", "comparison" })
                => prompt.template = "default"
    /\ (query = "difference between F-1 OPT and CPT"
        /\ pc \in { "chat_search", "chat_generate", "chat_return", "returned", "raised" }) =>
          /\ visa_type = "F1"
          /\ question_type = "comparison"
          /\ relevant_docs # << >> /\ pc # "chat_search" /\ pc # "chat_generate"
                => prompt.template = "comparison"

C16_Witness ==
    /\ pc = "returned"
    /\ query = "difference between F-1 OPT and CPT"
    /\ response.visa_type = "F1"
    /\ response.question_type = "comparison"
    /\ prompt.template = "comparison"

ResponseKeys == { "query", "visa_type", "question_type", "answer", "sources", "num_sources" }

\* the answers that describe a failure of the generation call
ErrorAnswer ==
    [o \in { "bad_status", "request_exception" } |->
        IF o = "bad_status" THEN "Error: 500 - <body>"
        ELSE "Error connecting to Ollama: <exception>"]

\* the response of a request but for its answer, from what the request found
\* before the generation call
ResponseBeforeAnswer ==
    [query |-> query, visa_type |-> visa_type, question_type |-> question_type,
     answer |-> "",
     sources |-> [j \in 1..Min(5, Len(relevant_docs)) |->
                     [title |-> relevant_docs[j].title, url |-> relevant_docs[j].url,
                      section_hint |-> relevant_docs[j].section_hint,
                      score |-> relevant_docs[j].score,
                      visa_tags |-> relevant_docs[j].visa_tags]],
     num_sources |-> Len(relevant_docs)]

\* C17: a connection error, a timeout or a status other than 200 of the
\* generation call never leaves chat as an exception: the answer is a string that
\* describes the error and chat returns a response with all six keys, whose
\* visa_type, question_type and sources are those of a request whose generation
\* succeeded.
C17_GenerationFailureIsAnAnswer ==
    /\ outcome \in { "bad_status", "request_exception" } =>
          /\ pc \in { "chat_return", "returned" }
          /\ answer = ErrorAnswer[outcome]
    /\ (pc = "returned" /\ outcome \in { "ok", "bad_status", "request_exception" }) =>
          /\ DOMAIN response = ResponseKeys
          /\ [response EXCEPT !.answer = ""] = ResponseBeforeAnswer
    /\ (pc = "returned" /\ outcome \in { "bad_status", "request_exception" }) =>
          response.answer = ErrorAnswer[outcome]

C17_Witness ==
    /\ pc = "returned"
    /\ outcome = "request_exception"
    /\ response.answer = "Error connecting to Ollama: <exception>"
    /\ response.visa_type = "F1"
    /\ response.question_type = "technical"
    /\ Len(response.sources) = 5

\* C18: a request calls the generation service at most once; after a failed call
\* the request ends with the error string as its answer, with no second call.
C18_GenerationCalledAtMostOnce ==
    /\ calls.generate <= 1
    /\ outcome # "" => calls.generate = 1
    /\ (pc = "returned" /\ outcome \in { "bad_status", "request_exception" }) =>
          /\ calls.generate = 1
          /\ response.answer \in { "Error: 500 - <body>",
                                   "Error connecting to Ollama: <exception>" }

C18_Witness ==
    /\ pc = "returned"
    /\ outcome = "bad_status"
    /\ calls.generate = 1
    /\ response.answer = "Error: 500 - <body>"

\* the suggestion of each typo variant
VariantSuggestion ==
    [v \in { "f.1", "f.2", "hvb", "h.1b", "h.4", "j.1", "j.2" } |->
        CASE v = "f.1" -> "F-1 (student visa)"
          [] v = "f.2" -> "F-2 (dependent visa)"
          [] v \in { "hvb", "h.1b" } -> "H-1B (work visa)"
          [] v = "h.4" -> "H-4 (dependent visa)"
          [] v = "j.1" -> "J-1 (exchange visitor)"
          [] v = "j.2" -> "J-2 (dependent visa)"]

\* how often part occurs in text
Occurrences(part, text) ==
    Cardinality({ i \in 1..(Len(text) - Len(part) + 1) :
                    SubSeq(text, i, i + Len(part) - 1) = part })

\* C19: when the visa classifier asks for a clarification, chat returns at once
\* with visa_type typo_clarification, no sources and num_sources 0; the answer
\* lists each distinct suggestion exactly once; the question-type classifier,
\* retrieval and the generation service are not called.
C19_ClarificationShortCircuits ==
    (pc # "chat_classify_visa" /\ StartsWith(visa_type, "typo_clarification:")) =>
        /\ pc = "returned"
        /\ response.visa_type = "typo_clarification"
        /\ response.sources = << >>
        /\ response.num_sources = 0
        /\ calls = [classify_question |-> 0, search |-> 0, encode |-> 0, generate |-> 0]
        /\ LET text == lower(query)
               suggested == { VariantSuggestion[v] :
                                v \in { w \in DOMAIN VariantSuggestion : Contains(w, text) } }
           IN  /\ suggested # {}
               /\ \A n \in 1..Len(SuggestionTexts) :
                     Occurrences("* " \o SuggestionTexts[n] \o "\n", response.answer)
                        = IF SuggestionTexts[n] \in suggested THEN 1 ELSE 0

C19_Witness ==
    /\ pc = "returned"
    /\ query = "hvb h.1b f.2"
    /\ response.visa_type = "typo_clarification"
    /\ Occurrences("* H-1B (work visa)\n", response.answer) = 1
    /\ Occurrences("* F-2 (dependent visa)\n", response.answer) = 1

\* C20: no step of a request changes the loaded indexes or the stored metadata:
\* every stored entry stays as it was loaded, without a score, which only the
\* copies returned by the search carry.
C20_StoreIsReadOnly ==
    /\ [](/\ metas = [name \in indexes |-> Corpus(name, CorpusSize(name))]
          /\ \A j \in 1..Len(relevant_docs) : "score" \in DOMAIN relevant_docs[j])
    /\ [][indexes' = indexes /\ metas' = metas]_vars

C20_Witness ==
    /\ pc = "returned"
    /\ Len(response.sources) = 5
    /\ response.sources[1].score > 1000000
    /\ "score" \notin DOMAIN metas[visa_type][1]
    /\ calls.search = 1

\* C27: in every response chat returns, num_sources is the number of entries
\* of sources.
C27_NumSourcesIsSourceCount ==
    pc = "returned" => response.num_sources = Len(response.sources)

Lines(text) ==
    LET breaks == { i \in 1..Len(text) : SubSeq(text, i, i) = "\n" }
        edges == breaks \cup { 0, Len(text) + 1 }
        edge(c) == CHOOSE x \in edges : Cardinality({ y \in edges : y < x }) = c - 1
    IN  [c \in 1..(Cardinality(breaks) + 1) |->
            SubSeq(text, edge(c) + 1, edge(c + 1) - 1)]

\* the lines of the context that head a document or give its content (the
\* citation lines of the fact blocks begin with "Source:")
DocumentLines(text) ==
    SelectSeq(Lines(text),
              LAMBDA line : StartsWith(line, "Source ") \/ StartsWith(line, "Content: "))

\* C25: the context generate_answer builds holds the first min(5, n) of the n
\* retrieved documents and no other, in retrieval order under the headings
\* Source 1 to Source min(5, n), each with its text cut to its first 800
\* characters, also when retrieval returned more than five documents; the
\* sources of the response are the same documents in the same order.
C25_ContextIsFirstFiveCut ==
    (pc = "returned" /\ relevant_docs # << >>) =>
        LET n == Len(relevant_docs)
            m == IF n < 5 THEN n ELSE 5
            shown == DocumentLines(context)
        IN  /\ n <= 8
            /\ Len(shown) = 2 * m
            /\ \A j \in 1..m :
                  LET doc == relevant_docs[j]
                      content == shown[2 * j]
                  IN  /\ shown[2 * j - 1] = "Source " \o ToString(j) \o ": " \o doc.title
                      /\ StartsWith(content, "Content: ")
                      /\ Len(content) <= 9 + 800
                      /\ Len(doc.text) <= 800 => content = "Content: " \o doc.text
                      /\ Len(doc.text) > 800 =>
                            content = "Content: " \o SubSeq(doc.text, 1, 800)
                      /\ response.sources[j].title = doc.title
                      /\ response.sources[j].url = doc.url
                      /\ response.sources[j].score = doc.score
            /\ Len(response.sources) = m

C25_Witness ==
    /\ pc = "returned"
    /\ Len(relevant_docs) = 6
    /\ Len(response.sources) = 5
    /\ \E j \in 1..5 :
          /\ Len(relevant_docs[j].text) > 800
          /\ Len(DocumentLines(context)[2 * j]) = 809
    /\ StartsWith(DocumentLines(context)[9], "Source 5: ")

\* the candidates the tag preference starts from: the pool after the prefilter
AfterPrefilter ==
    IF StdLabel \in { "F-2", "J-2", "H-4" } /\ Len(PoolPassing) >= 5 THEN PoolPassing
    ELSE pool

\* the candidates the tag preference starts from that carry the raw visa tag
TaggedAfterPrefilter ==
    SelectSeq(AfterPrefilter,
              LAMBDA c : vt_raw_of(ex_visa) \in Range(metas["general"][c.i + 1].visa_tags))

\* C22, as claimed: in a search with a raw visa tag, the candidates after tag
\* preference are the tagged ones when at least 5 candidates carry the tag, and
\* otherwise, also when 1 to 4 carry it, the candidates the preference started
\* from.
C22_TagPreferenceNeedsFive ==
    (pc = "rerank_blend" /\ vt_raw_of(ex_visa) # "") =>
        candidates = IF Len(TaggedAfterPrefilter) >= 5 THEN TaggedAfterPrefilter
                     ELSE AfterPrefilter

\* the boost of a clause in a search for the visa_type field ex, in the units of
\* the similarities: 0.2 for the raw visa tag, 0.1 for the standardized label in
\* title, section or text, 0.05 for each dependent keyword in them when the visa
\* is F-2, J-2 or H-4
BoostOf ==
    [ex \in ExVisas |->
        [doc \in Range(EvalClauses) |->
            LET raw == vt_raw_of(ex)
                label == vt_std_of(raw)
                keywords == { "dependent", "dependents", "spouse", "spouses" }
            IN  (IF raw # "" /\ raw \in Range(doc.visa_tags) THEN 2000000 ELSE 0)
                + (IF label # "" /\ Contains(label, HayOf[doc]) THEN 1000000 ELSE 0)
                + (IF label \in { "F-2", "J-2", "H-4" }
                   THEN 500000 * Cardinality({ kw \in keywords : Contains(kw, LowOf[doc]) })
                   ELSE 0)]]

\* the lexical similarity, in percent, of a question to a clause
LexicalOf ==
    [q \in RerankQueries |->
        [doc \in Range(EvalClauses) |->
            tfidf_sims(q, << [i |-> 0, s |-> 0] >>, << doc >>)[1]]]

\* base similarity + 0.15 x lexical similarity + boost of each candidate after
\* filtering, in their order
BlendedScores ==
    [n \in 1..Len(candidates) |->
        LET doc == metas["general"][candidates[n].i + 1]
        IN  candidates[n].s + 15000 * LexicalOf[query][doc] + BoostOf[ex_visa][doc]]
    \o << >>

\* the places, among the candidates after filtering, of the ids returned
PlacesReturned ==
    [a \in 1..Len(reranked) |->
        IF \E n \in 1..Len(candidates) : candidates[n].i = reranked[a]
        THEN CHOOSE n \in 1..Len(candidates) : candidates[n].i = reranked[a]
        ELSE 0] \o << >>

GenericKeywords == { "dependent", "spouse", "child", "family" }

\* the categories of the highest score are F2, H4 and J2 and no other, and their
\* score comes from the shared keywords alone
TiedOnGenericKeywords(q) ==
    LET score == CategoryScores(q)
        text == lower(q)
    IN  /\ score[2] > 0
        /\ \A c \in { 2, 4, 6 } :
              /\ score[c] = Cardinality({ kw \in GenericKeywords : Contains(kw, text) })
              /\ \A token \in VisaCodeTokens[c] : ~Contains(token, text)
        /\ \A c \in { 1, 3, 5 } : score[c] < score[2]

\* C26 as stated: "H4" is returned only for queries that contain "h-4" or "h4",
\* "J2" only for queries that contain "j-2" or "j2", and every query whose
\* highest-scoring categories are tied through the shared keywords alone is
\* classified "F2".
C26_GenericTieIsF2 ==
    pc = "classified" =>
        LET text == lower(query)
        IN  /\ visa_type = "H4" => Contains("h-4", text) \/ Contains("h4", text)
            /\ visa_type = "J2" => Contains("j-2", text) \/ Contains("j2", text)
            /\ TiedOnGenericKeywords(query) => visa_type = "F2"

\* C26: "H4" is returned only for queries that contain "h-4" or "h4", "J2" only
\* for queries that contain "j-2" or "j2"; a query whose highest-scoring
\* categories are tied through the shared keywords alone is classified "F2" when
\* it holds no greeting and "general" when it holds one, never "H4" or "J2".
C26_OnlyCodeTokensSelectH4J2 ==
    pc = "classified" =>
        LET text == lower(query)
        IN  /\ visa_type = "H4" => Contains("h-4", text) \/ Contains("h4", text)
            /\ visa_type = "J2" => Contains("j-2", text) \/ Contains("j2", text)
            /\ TiedOnGenericKeywords(query) =>
                  visa_type = (IF HasGreeting(query) THEN "general" ELSE "F2")

C26_Witness ==
    /\ pc = "classified"
    /\ TiedOnGenericKeywords(query)
    /\ ~HasGreeting(query)
    /\ CategoryScores(query)[4] = 1
    /\ CategoryScores(query)[6] = 1
    /\ visa_type = "F2"

\* the variants that are no keyword of a category, and those that are one
DottedVariants == { "f.1", "f.2", "hvb", "h.1b", "h.4", "j.1", "j.2" }
UndottedVariants == { "f1", "f2", "h1b", "h4", "j1", "j2" }

SpecificSuggestions ==
    { "F-1 (student visa)", "F-2 (dependent visa)", "H-1B (work visa)",
      "H-4 (dependent visa)", "J-1 (exchange visitor)", "J-2 (dependent visa)" }

\* C28: a clarification request is returned only for queries that contain one
\* of the variants f.1, f.2, hvb, h.1b, h.4, j.1, j.2; it carries at least one
\* suggestion, each one of the six specific strings and so none of the generic
\* ones; a query that contains an undotted variant is never answered with a
\* clarification request: it scores at least 3 and gets a visa label (or
\* "general" when it holds a greeting).
C28_ClarificationOnlyForDottedVariants ==
    pc = "classified" =>
        LET text == lower(query)
            clarifies == StartsWith(visa_type, "typo_clarification:")
        IN  /\ clarifies =>
                  LET carried == split(SubSeq(visa_type, 20, Len(visa_type)), ",")
                  IN  /\ \E v \in DottedVariants : Contains(v, text)
                      /\ carried # << >>
                      /\ \A n \in 1..Len(carried) : carried[n] \in SpecificSuggestions
                      /\ \A generic \in { "F-1 or F-2", "H-1B or H-4", "J-1 or J-2" } :
                            ~Contains(generic, visa_type)
            /\ (\E u \in UndottedVariants : Contains(u, text)) =>
                  /\ ~clarifies
                  /\ \E c \in Categories : CategoryScores(query)[c] >= 3
                  /\ visa_type \in (IF HasGreeting(query) THEN { "general" } ELSE VisaLabels)

C28_Witness ==
    /\ pc = "classified"
    /\ query = "j.1 or j.2"
    /\ StartsWith(visa_type, "typo_clarification:")
    /\ Range(split(SubSeq(visa_type, 20, Len(visa_type)), ","))
          = { "J-1 (exchange visitor)", "J-2 (dependent visa)" }

\* the visa type and the question type of each query of the calls, per hash salt
AloneVisaType ==
    [q \in ConcurrentQueries |-> [seed \in Seeds |-> classify_visa_type(q, seed)]]
AloneQuestionType == [q \in ConcurrentQueries |-> classify_question_type(q)]

\* what chat(q) returns, answer aside, when it runs alone on a chatbot just
\* loaded in a process salted with seed, the index answering rows
AloneResult(q, rows, seed) ==
    LET visa == AloneVisaType[q][seed]
        docs == IF visa \in indexes
                THEN collect_docs(rows, Corpus(visa, CorpusSize(visa)))
                ELSE << >>
    IN  IF StartsWith(visa, "typo_clarification:")
        THEN [visa_type |-> "typo_clarification", question_type |-> "clarification",
              sources |-> << >>, num_sources |-> 0]
        ELSE [visa_type |-> visa, question_type |-> AloneQuestionType[q],
              sources |-> [j \in 1..Min(5, Len(docs)) |-> source_of(docs[j])],
              num_sources |-> Len(docs)]

\* C21: whatever the other calls in progress do and whatever calls came before,
\* a call of chat returns the visa_type, question_type, sources and num_sources
\* it returns when it runs alone on a chatbot just loaded, given the same answer
\* of the index; and no call changes the indexes or the stored metadata.
C21_RequestsAreIndependent ==
    /\ metas = [name \in indexes |-> Corpus(name, CorpusSize(name))]
    /\ \A r \in Requests :
          requests[r].pc = "returned" =>
            \A seed \in Seeds :
                LET alone == AloneResult(requests[r].asked, requests[r].rows, seed)
                    got == requests[r].result
                IN  /\ got.query = requests[r].asked
                    /\ got.visa_type = alone.visa_type
                    /\ got.question_type = alone.question_type
                    /\ got.sources = alone.sources
                    /\ got.num_sources = alone.num_sources

C21_Witness ==
    /\ requests[1].pc = "returned"
    /\ requests[1].result.visa_type = "H4"
    /\ requests[1].result.num_sources = 1
    /\ requests[2].pc = "chat_return"
    /\ requests[2].asked = "how to apply for h1b"
    /\ frames[2].visa_type = "H1B"
    /\ frames[2].question_type = "procedural"
    /\ frames[1].visa_type = "H4"

====
